---- MODULE Spec2Model ----
\* Countdown-timer engine of shopify-countdown-timer: the status computation,
\* the targeting matcher and the public storefront router (selection and
\* impression counting), the storefront widget (CountdownTimer instances,
\* the visitor's localStorage and the timer callbacks, the countdown text),
\* and the admin router with the Timer schema, modelled from the JavaScript
\* sources.
EXTENDS Integers, Sequences, FiniteSets, TLC

VARIABLES
    now,        \* wall clock, in abstract milliseconds (new Date() / Date.now())
    subject,    \* the timer object handed to the status functions
    status,     \* what each status implementation computed for subject at now
    target,     \* the timer object handed to the targeting matchers
    ctx,        \* the product / collection context handed to the matchers
    matched,    \* what each matcher implementation answered for (target, ctx)
    timers,     \* the Timer collection of the document store
    resp,       \* the last response of the storefront router, with the handler's locals
    storage,    \* the visitor's localStorage entry under the timer's key
    storeMode,  \* whether localStorage works on this page load
    widget,     \* the fields of the CountdownTimer instance and of its container
    sched,      \* the fetch, intervals, timeouts and post the instance has pending
    log,        \* what the instance has done so far
    origin,     \* the kind and the shop each timer document was created with
    reports,    \* the impression reports received and not yet applied, and the count applied
    peer,       \* a second CountdownTimer instance over the same localStorage
    shown       \* the countdown last computed for an end instant, by the widget and by the helpers

vars == <<now, subject, status, target, ctx, matched, timers, resp,
          storage, storeMode, widget, sched, log, origin, reports, peer, shown>>

\* The variables of the server side and those of the widget.
engineVars == <<subject, status, target, ctx, matched, timers, resp>>

widgetVars == <<storage, storeMode, widget, sched, log>>

\* The history kept beside the admin router and the impression route.
adminVars == <<origin, reports>>

----------------------------------------------------------------------------
\* Bounds of the model.

\* The clock runs over 0..MaxTime.
MaxTime == 3

\* Impression counters are followed up to this value.
MaxImpressions == 2

----------------------------------------------------------------------------
\* JavaScript values.

\* `undefined`: a field that is absent from the object.
Undefined == [k |-> "undefined", v |-> 0]

\* An Invalid Date (time value NaN): new Date(undefined), new Date("not-a-date").
InvalidDate == [k |-> "invalid", v |-> 0]

\* A string that does not parse as a date.
Unparseable == [k |-> "string", v |-> 0]

\* A Date with time value ms.
DateOf(ms) == [k |-> "date", v |-> ms]

\* A number n.
Num(n) == [k |-> "number", v |-> n]

\* new Date(v): a Date stays as it is, anything that does not parse is an
\* Invalid Date.
NewDate(v) == IF v.k = "date" THEN v ELSE InvalidDate

\* a > b and a < b on dates: false as soon as one side is NaN.
DateGt(a, b) == a.k = "date" /\ b.k = "date" /\ a.v > b.v

DateLt(a, b) == a.k = "date" /\ b.k = "date" /\ a.v < b.v

\* MongoDB's { field: { $lte: b } } and { field: { $gte: b } } on a Date
\* field: a missing field matches neither.
MongoLte(a, b) == a.k = "date" /\ b.k = "date" /\ a.v <= b.v

MongoGte(a, b) == a.k = "date" /\ b.k = "date" /\ a.v >= b.v

----------------------------------------------------------------------------
\* Strings are sequences of one-character strings.

S1(a) == <<a>>

S2(a, b) == <<a, b>>

S3(a, b, c) == <<a, b, c>>

LowerChar(c) == IF c = "A" THEN "a" ELSE IF c = "B" THEN "b" ELSE c

\* String.prototype.toLowerCase
RECURSIVE ToLowerCase(_)
ToLowerCase(s) ==
    IF s = <<>> THEN <<>> ELSE <<LowerChar(Head(s))>> \o ToLowerCase(Tail(s))

RECURSIVE TrimStart(_)
TrimStart(s) ==
    IF s # <<>> /\ Head(s) = " " THEN TrimStart(Tail(s)) ELSE s

RECURSIVE TrimEnd(_)
TrimEnd(s) ==
    IF s # <<>> /\ s[Len(s)] = " " THEN TrimEnd(SubSeq(s, 1, Len(s) - 1)) ELSE s

\* String.prototype.trim
Trim(s) == TrimEnd(TrimStart(s))

\* String.prototype.includes: sub occurs in s as a contiguous run.
Includes(s, sub) ==
    \E i \in 0..(Len(s) - Len(sub)) : SubSeq(s, i + 1, i + Len(sub)) = sub

\* String.prototype.split(sep) for a one-character separator: the sequence of
\* the pieces between separators (empty pieces included).
RECURSIVE SplitFrom(_, _, _)
SplitFrom(s, sep, piece) ==
    IF s = <<>> THEN <<piece>>
    ELSE IF Head(s) = sep THEN <<piece>> \o SplitFrom(Tail(s), sep, <<>>)
    ELSE SplitFrom(Tail(s), sep, Append(piece, Head(s)))

Split(s, sep) == SplitFrom(s, sep, <<>>)

Range(f) == {f[i] : i \in DOMAIN f}

----------------------------------------------------------------------------
\* Status computation.

\* The timer objects the status functions are applied to: a record may be
\* absent, and its window fields may be missing or unparseable.
DateInputs == {Undefined, Unparseable} \cup {DateOf(t) : t \in 0..MaxTime}

StatusSubjects ==
    [present : BOOLEAN, isActive : BOOLEAN, type : {"fixed", "evergreen"},
     startDate : DateInputs, endDate : DateInputs]

\* The virtual with the end instant itself counted as expired.
StatusVirtualEndExclusive(t, n) ==
    IF ~t.isActive THEN "inactive"
    ELSE IF t.type = "evergreen" THEN "active"
    ELSE IF DateGt(t.startDate, n) THEN "scheduled"
    ELSE IF DateLt(t.endDate, n) \/ t.endDate = n THEN "expired"
    ELSE "active"

\* timerSchema.virtual('status') of the Timer model (this is the document).
StatusVirtual(t, n) ==
    IF ~t.isActive THEN "inactive"
    ELSE IF t.type = "evergreen" THEN "active"
    ELSE IF DateGt(t.startDate, n) THEN "scheduled"
    ELSE IF DateLt(t.endDate, n) THEN "expired"
    ELSE "active"

\* calculateTimerStatus with the window looked at before the toggle.
CalculateTimerStatusWindowFirst(t, n) ==
    IF ~t.present THEN "unknown"
    ELSE IF t.type = "fixed" /\ DateLt(n, NewDate(t.startDate)) THEN "scheduled"
    ELSE IF t.type = "fixed" /\ DateGt(n, NewDate(t.endDate)) THEN "expired"
    ELSE IF ~t.isActive THEN "inactive"
    ELSE "active"

\* calculateTimerStatus of the shared timer utilities.
CalculateTimerStatus(t, n) ==
    IF ~t.present THEN "unknown"
    ELSE IF ~t.isActive THEN "inactive"
    ELSE IF t.type = "evergreen" THEN "active"
    ELSE IF DateLt(n, NewDate(t.startDate)) THEN "scheduled"
    ELSE IF DateGt(n, NewDate(t.endDate)) THEN "expired"
    ELSE "active"

\* timersWithStatus of the admin listing (GET /api/timers).
TimersWithStatus(t, n) ==
    IF ~t.isActive THEN "inactive"
    ELSE IF t.type = "fixed"
         THEN IF DateGt(NewDate(t.startDate), n) THEN "scheduled"
              ELSE IF DateLt(NewDate(t.endDate), n) THEN "expired"
              ELSE "active"
    ELSE "active"

\* The three implementations applied to one timer object at instant n. The
\* virtual and the listing run on a stored document only.
ComputeStatus(t, n) ==
    [read |-> TRUE,
     virtual |-> IF t.present THEN StatusVirtual(t, DateOf(n)) ELSE "none",
     utils   |-> CalculateTimerStatus(t, DateOf(n)),
     listing |-> IF t.present THEN TimersWithStatus(t, DateOf(n)) ELSE "none"]

\* No status has been read yet.
StatusNotRead == [read |-> FALSE, virtual |-> "none", utils |-> "none", listing |-> "none"]

----------------------------------------------------------------------------
\* Targeting matcher.

\* The ids used in targeting lists and in request contexts: "12", "120", "3".
IdStrings == {S2("1", "2"), S3("1", "2", "0"), S1("3")}

\* A timer's targeting: absent altogether, or a scope (possibly unset) with
\* its two id lists. An absent list behaves as an empty one: `?.some` and
\* `?.includes` then yield undefined, which the filters treat as false.
NoTargeting == [present |-> FALSE, scope |-> "unset", productIds |-> {}, collectionIds |-> {}]

Targetings ==
    {NoTargeting}
    \cup [present : {TRUE}, scope : {"unset", "all"}, productIds : {{}}, collectionIds : {{}}]
    \cup [present : {TRUE}, scope : {"products"}, productIds : SUBSET IdStrings, collectionIds : {{}}]
    \cup [present : {TRUE}, scope : {"collections"}, productIds : {{}}, collectionIds : SUBSET IdStrings]

\* An optional string argument: undefined, or a string (possibly empty).
NoString == [def |-> FALSE, s |-> <<>>]

Str(s) == [def |-> TRUE, s |-> s]

\* JavaScript truthiness of an optional string.
Truthy(v) == v.def /\ v.s # <<>>

ProductIdArgs == {NoString, Str(<<>>), Str(S1("1"))} \cup {Str(i) : i \in IdStrings}

Contexts == [productId : ProductIdArgs, collectionIds : SUBSET IdStrings]

\* The scope read without the 'all' default.
ScopeOfNoDefault(t) == IF t.present THEN t.scope ELSE "unset"

\* timer.targeting?.scope || 'all'
ScopeOf(t) == IF ~t.present \/ t.scope = "unset" THEN "all" ELSE t.scope

\* id === other || id.includes(other) || other.includes(id)
LooseIdMatch(id, other) == id = other \/ Includes(id, other) \/ Includes(other, id)

\* The targeting filter of GET /api/storefront/timer; t is the timer's
\* targeting, collectionIdArray the parsed collection ids.
MatchesStorefront(t, productId, collectionIdArray) ==
    LET scope == ScopeOf(t) IN
    IF scope = "all" THEN TRUE
    ELSE IF scope = "products" /\ Truthy(productId)
         THEN \E id \in t.productIds : LooseIdMatch(id, productId.s)
    ELSE IF scope = "collections" /\ collectionIdArray # {}
         THEN \E id \in t.collectionIds :
                  \E cid \in collectionIdArray : LooseIdMatch(cid, id)
    ELSE FALSE

\* matchesTargeting of the shared timer utilities.
MatchesTargeting(t, productId, collectionIds) ==
    LET scope == ScopeOf(t) IN
    IF scope = "all" THEN TRUE
    ELSE IF scope = "products" /\ Truthy(productId)
         THEN \E id \in t.productIds : LooseIdMatch(id, productId.s)
    ELSE IF scope = "collections" /\ collectionIds # {}
         THEN \E id \in t.collectionIds :
                  \E cid \in collectionIds : LooseIdMatch(cid, id)
    ELSE FALSE

\* The targeting filter of Timer.findActiveForProduct.
MatchesFindActive(t, productId, collectionIds) ==
    LET scope == ScopeOf(t) IN
    IF scope = "all" THEN TRUE
    ELSE IF scope = "products" /\ Truthy(productId)
         THEN productId.s \in t.productIds
    ELSE IF scope = "collections" /\ collectionIds # {}
         THEN \E id \in t.collectionIds : id \in collectionIds
    ELSE FALSE

\* Timer.prototype.appliesToProduct.
AppliesToProduct(t, productId, collectionIds) ==
    LET scope == ScopeOf(t) IN
    IF scope = "all" THEN TRUE
    ELSE IF scope = "products"
         THEN productId.def /\ productId.s \in t.productIds
    ELSE IF scope = "collections"
         THEN \E id \in t.collectionIds : id \in collectionIds
    ELSE FALSE

\* The four implementations applied to one targeting and one context.
ComputeMatches(t, c) ==
    [asked |-> TRUE,
     storefront |-> MatchesStorefront(t, c.productId, c.collectionIds),
     utils      |-> MatchesTargeting(t, c.productId, c.collectionIds),
     findActive |-> MatchesFindActive(t, c.productId, c.collectionIds),
     applies    |-> AppliesToProduct(t, c.productId, c.collectionIds)]

\* No matcher has been asked yet.
NotMatched == [asked |-> FALSE, storefront |-> FALSE, utils |-> FALSE,
               findActive |-> FALSE, applies |-> FALSE]

----------------------------------------------------------------------------
\* The document store and the storefront router.

\* Shop domains: "a", "b" as stored (the schema lowercases and trims).
StoredShops == {S1("a"), S1("b")}

\* A timer document's appearance: absent, or the stored sub-document.
NoAppearance == [present |-> FALSE, backgroundColor |-> "", textColor |-> "",
                 position |-> "", headline |-> "", supportingText |-> ""]

CustomAppearance == [present |-> TRUE, backgroundColor |-> "#FF0000", textColor |-> "",
                     position |-> "top", headline |-> "Sale", supportingText |-> ""]

\* The window fields a stored document may hold: a Date field is a Date or
\* is missing.
StoredDates == {Undefined} \cup {DateOf(t) : t \in 1..(MaxTime - 1)}

TimerWindows ==
    [type : {"evergreen"}, startDate : {Undefined}, endDate : {Undefined},
     durationMinutes : {Num(1)}]
    \cup [type : {"fixed"}, startDate : StoredDates, endDate : StoredDates,
          durationMinutes : {Undefined}]

\* A document of the Timer collection.
TimerDoc(id, shop, active, w, targeting, appearance, created) ==
    [_id |-> id, shop |-> shop, name |-> "timer", type |-> w.type,
     startDate |-> w.startDate, endDate |-> w.endDate,
     durationMinutes |-> w.durationMinutes, targeting |-> targeting,
     appearance |-> appearance, impressions |-> 0, isActive |-> active,
     createdAt |-> created]

ProductsTargeting(ids) ==
    [present |-> TRUE, scope |-> "products", productIds |-> ids, collectionIds |-> {}]

CollectionsTargeting(ids) ==
    [present |-> TRUE, scope |-> "collections", productIds |-> {}, collectionIds |-> ids]

AllTargeting ==
    [present |-> TRUE, scope |-> "all", productIds |-> {}, collectionIds |-> {}]

\* A query or body parameter as the framework hands it over: absent, a
\* string, or (a repeated key) an array.
NoParam == [k |-> "undefined", s |-> <<>>]

StrParam(s) == [k |-> "string", s |-> s]

ArrayParam == [k |-> "array", s |-> <<>>]

\* !param
Falsy(p) == p.k = "undefined" \/ (p.k = "string" /\ p.s = <<>>)

\* shop.toLowerCase().trim()
NormalizeShop(s) == Trim(ToLowerCase(s))

\* collectionIds.split(',').map(id => id.trim()).filter(Boolean), as the set
\* of its elements.
CollectionIdArray(s) ==
    {Trim(piece) : piece \in Range(Split(s, ","))} \ {<<>>}

\* The query without its isActive condition.
QueryMatchesAnyToggle(t, shop, n) ==
    /\ t.shop = shop
    /\ \/ t.type = "evergreen"
       \/ /\ t.type = "fixed"
          /\ MongoLte(t.startDate, n)
          /\ MongoGte(t.endDate, n)

\* The query of GET /api/storefront/timer: shop, isActive and the $or on the
\* type and the window.
QueryMatches(t, shop, n) ==
    /\ t.shop = shop
    /\ t.isActive
    /\ \/ t.type = "evergreen"
       \/ /\ t.type = "fixed"
          /\ MongoLte(t.startDate, n)
          /\ MongoGte(t.endDate, n)

\* Timer.find(query).sort({ createdAt: -1 }) followed by the targeting
\* filter: the documents that may stand first in matchingTimers. Documents
\* with the same createdAt come in an order the store does not fix.
FirstMatching(store, shop, n, productId, collectionIdArray) ==
    LET matching == {t \in store :
                        /\ QueryMatches(t, shop, n)
                        /\ MatchesStorefront(t.targeting, productId, collectionIdArray)}
    IN {t \in matching : \A u \in matching : u.createdAt <= t.createdAt}

\* value || fallback on a string field
OrElse(value, fallback) == IF value = "" THEN fallback ELSE value

NoData == [id |-> 0, type |-> "", appearance |-> NoAppearance,
           startDate |-> Undefined, endDate |-> Undefined,
           durationMinutes |-> Undefined]

\* The response carrying the impressions counter as well.
BuildResponseWithImpressions(t) ==
    [id |-> t._id, type |-> t.type,
     appearance |->
        [present |-> TRUE,
         backgroundColor |-> OrElse(t.appearance.backgroundColor, "#000000"),
         textColor |-> OrElse(t.appearance.textColor, "#FFFFFF"),
         position |-> OrElse(t.appearance.position, "above-cart"),
         headline |-> OrElse(t.appearance.headline, ""),
         supportingText |-> OrElse(t.appearance.supportingText, "")],
     startDate |-> IF t.type = "fixed" THEN t.startDate ELSE Undefined,
     endDate |-> IF t.type = "fixed" THEN t.endDate ELSE Undefined,
     durationMinutes |-> IF t.type = "evergreen" THEN t.durationMinutes ELSE Undefined,
     impressions |-> t.impressions]

\* The minimal response built for the selected timer.
BuildResponse(t) ==
    [id |-> t._id, type |-> t.type,
     appearance |->
        [present |-> TRUE,
         backgroundColor |-> OrElse(t.appearance.backgroundColor, "#000000"),
         textColor |-> OrElse(t.appearance.textColor, "#FFFFFF"),
         position |-> OrElse(t.appearance.position, "above-cart"),
         headline |-> OrElse(t.appearance.headline, ""),
         supportingText |-> OrElse(t.appearance.supportingText, "")],
     startDate |-> IF t.type = "fixed" THEN t.startDate ELSE Undefined,
     endDate |-> IF t.type = "fixed" THEN t.endDate ELSE Undefined,
     durationMinutes |-> IF t.type = "evergreen" THEN t.durationMinutes ELSE Undefined]

\* A response of the router together with the locals of the handler that
\* produced it. maxAge is the Cache-Control max-age, 0 when no header is set;
\* queried tells whether the store was asked.
Response(op, req, code, maxAge, shop, queried, n, success, data) ==
    [op |-> op, req |-> req, status |-> code, maxAge |-> maxAge,
     normalizedShop |-> shop, queried |-> queried, now |-> n,
     success |-> success, data |-> data]

NoRequest == [shop |-> NoParam, productId |-> NoString, collectionIds |-> NoParam,
              id |-> [valid |-> FALSE, oid |-> 0]]

NoResponse == Response("none", NoRequest, 0, 0, <<>>, FALSE, 0, FALSE, NoData)

\* The outcomes of router.get('/timer') for one request at instant n;
\* storeFails tells whether Timer.find rejects.
TimerResponses(store, req, n, storeFails) ==
    IF Falsy(req.shop)
    THEN {Response("getTimer", req, 400, 0, <<>>, FALSE, n, FALSE, NoData)}
    ELSE IF req.shop.k # "string"
    THEN \* shop.toLowerCase is not a function: caught below
         {Response("getTimer", req, 500, 30, <<>>, FALSE, n, FALSE, NoData)}
    ELSE LET normalizedShop == NormalizeShop(req.shop.s) IN
    IF ~Falsy(req.collectionIds) /\ req.collectionIds.k # "string"
    THEN \* collectionIds.split is not a function: caught below
         {Response("getTimer", req, 500, 30, normalizedShop, FALSE, n, FALSE, NoData)}
    ELSE LET collectionIdArray ==
                 IF Falsy(req.collectionIds) THEN {}
                 ELSE CollectionIdArray(req.collectionIds.s)
         IN
    IF storeFails
    THEN {Response("getTimer", req, 500, 30, normalizedShop, TRUE, n, FALSE, NoData)}
    ELSE LET first == FirstMatching(store, normalizedShop, DateOf(n),
                                    req.productId, collectionIdArray)
         IN
    IF first = {}
    THEN {Response("getTimer", req, 404, 60, normalizedShop, TRUE, n, FALSE, NoData)}
    ELSE {Response("getTimer", req, 200, 60, normalizedShop, TRUE, n, TRUE,
                   BuildResponse(t)) : t \in first}

\* The impression route writing a counter of its own making,
\* { $set: { impressions: 1 } }, instead of incrementing the stored one.
ImpressionOutcomeOverwrite(store, req, n, storeFails) ==
    IF ~req.id.valid
    THEN [resp |-> Response("impression", req, 400, 0, <<>>, FALSE, n, FALSE, NoData),
          timers |-> store]
    ELSE IF ~Falsy(req.shop) /\ req.shop.k # "string"
    THEN \* shop.toLowerCase is not a function: caught, answered as a success
         [resp |-> Response("impression", req, 200, 0, <<>>, FALSE, n, TRUE, NoData),
          timers |-> store]
    ELSE LET shop == IF Falsy(req.shop) THEN <<>> ELSE NormalizeShop(req.shop.s)
             hit == {t \in store : /\ t._id = req.id.oid
                                   /\ (Falsy(req.shop) \/ t.shop = shop)}
         IN
    IF storeFails
    THEN [resp |-> Response("impression", req, 200, 0, shop, TRUE, n, TRUE, NoData),
          timers |-> store]
    ELSE IF hit = {}
    THEN [resp |-> Response("impression", req, 404, 0, shop, TRUE, n, FALSE, NoData),
          timers |-> store]
    ELSE [resp |-> Response("impression", req, 200, 0, shop, TRUE, n, TRUE, NoData),
          timers |-> {IF t \in hit THEN [t EXCEPT !.impressions = 1] ELSE t :
                         t \in store}]

\* The outcome of router.post('/timer/:id/impression'): the response and the
\* collection after it. storeFails tells whether findOneAndUpdate rejects.
ImpressionOutcome(store, req, n, storeFails) ==
    IF ~req.id.valid
    THEN [resp |-> Response("impression", req, 400, 0, <<>>, FALSE, n, FALSE, NoData),
          timers |-> store]
    ELSE IF ~Falsy(req.shop) /\ req.shop.k # "string"
    THEN \* shop.toLowerCase is not a function: caught, answered as a success
         [resp |-> Response("impression", req, 200, 0, <<>>, FALSE, n, TRUE, NoData),
          timers |-> store]
    ELSE LET shop == IF Falsy(req.shop) THEN <<>> ELSE NormalizeShop(req.shop.s)
             hit == {t \in store : /\ t._id = req.id.oid
                                   /\ (Falsy(req.shop) \/ t.shop = shop)}
         IN
    IF storeFails
    THEN [resp |-> Response("impression", req, 200, 0, shop, TRUE, n, TRUE, NoData),
          timers |-> store]
    ELSE IF hit = {}
    THEN [resp |-> Response("impression", req, 404, 0, shop, TRUE, n, FALSE, NoData),
          timers |-> store]
    ELSE \* { $inc: { impressions: 1 } } on the one document found
         [resp |-> Response("impression", req, 200, 0, shop, TRUE, n, TRUE, NoData),
          timers |-> {IF t \in hit THEN [t EXCEPT !.impressions = @ + 1] ELSE t :
                         t \in store}]

----------------------------------------------------------------------------
\* Requests and stored documents the model draws from.

ShopParams ==
    {NoParam, ArrayParam, StrParam(<<>>), StrParam(S1("a")), StrParam(S2(" ", "A")),
     StrParam(S1("b"))}

ProductParams == {NoString, Str(S2("1", "2"))}

\* collectionIds: absent, "12, 3", or an array.
CollectionParams ==
    {NoParam, StrParam(<<"1", "2", ",", " ", "3">>), ArrayParam}

NoId == [valid |-> FALSE, oid |-> 0]

\* Requests to GET /timer: every shop parameter without a context, and
\* every context for the shop " A".
TimerRequests ==
    [shop : ShopParams, productId : {NoString}, collectionIds : {NoParam}, id : {NoId}]
    \cup [shop : {StrParam(S2(" ", "A"))}, productId : ProductParams,
          collectionIds : CollectionParams, id : {NoId}]

\* An :id route parameter: whether it has the ObjectId format, and the id.
IdParams == {[valid |-> FALSE, oid |-> 1]} \cup [valid : {TRUE}, oid : 1..3]

ImpressionRequests ==
    [shop : {NoParam, ArrayParam, StrParam(S2(" ", "A")), StrParam(S1("b"))},
     productId : {NoString}, collectionIds : {NoParam}, id : IdParams]

Loose120 == S3("1", "2", "0")

Evergreen1 ==
    [type |-> "evergreen", startDate |-> Undefined, endDate |-> Undefined,
     durationMinutes |-> Num(1)]

FixedWindow(s, e) ==
    [type |-> "fixed", startDate |-> s, endDate |-> e, durationMinutes |-> Undefined]

\* Stores that vary the owner, the toggle and the window of document 1
\* (created at 2), alone or beside an older evergreen timer of shop "a".
WindowStores ==
    LET firsts == {TimerDoc(1, shop, active, w, AllTargeting, CustomAppearance, 2) :
                      shop \in StoredShops, active \in BOOLEAN, w \in TimerWindows}
        older == TimerDoc(2, S1("a"), TRUE, Evergreen1, AllTargeting, NoAppearance, 1)
    IN {{d} : d \in firsts} \cup {{d, older} : d \in firsts}

\* Stores that vary the targeting and the creation order of two eligible
\* timers of shop "a": a fixed one created at 2 and an evergreen one.
TargetingStores ==
    {{TimerDoc(1, S1("a"), TRUE, FixedWindow(DateOf(0), DateOf(MaxTime)), t1,
               CustomAppearance, 2),
      TimerDoc(2, S1("a"), TRUE, Evergreen1, t2, NoAppearance, created)} :
        t1 \in {NoTargeting, AllTargeting, ProductsTargeting({Loose120}),
                CollectionsTargeting({Loose120})},
        t2 \in {NoTargeting, ProductsTargeting({S2("1", "2")})},
        created \in 1..3}

Stores == {{}} \cup WindowStores \cup TargetingStores

\* The stores the whole router is run on: document 1 is a fixed timer of
\* either shop, active or not; document 2 an evergreen timer of shop "a".
RouterStores ==
    {{}} \cup
    {{TimerDoc(1, shop, active, FixedWindow(DateOf(1), DateOf(2)), AllTargeting,
               CustomAppearance, 2),
      TimerDoc(2, S1("a"), TRUE, Evergreen1, ProductsTargeting({Loose120}),
               NoAppearance, 3)} :
        shop \in StoredShops, active \in BOOLEAN}

----------------------------------------------------------------------------
\* The storefront widget: numbers and the visitor store.

\* NaN
NaN == [k |-> "nan", v |-> 0]

IsNum(x) == x.k = "number"

\* a + b, a - b, a * b, a >= b and a <= b on numbers: NaN (and undefined,
\* which converts to NaN) propagates, and a comparison with NaN is false.
Plus(a, b) == IF IsNum(a) /\ IsNum(b) THEN Num(a.v + b.v) ELSE NaN

Minus(a, b) == IF IsNum(a) /\ IsNum(b) THEN Num(a.v - b.v) ELSE NaN

Times(a, b) == IF IsNum(a) /\ IsNum(b) THEN Num(a.v * b.v) ELSE NaN

NumGte(a, b) == IsNum(a) /\ IsNum(b) /\ a.v >= b.v

NumLte(a, b) == IsNum(a) /\ IsNum(b) /\ a.v <= b.v

\* setTimeout(..., 100) of the restart after an evergreen expiry
RestartDelayMs == 100

\* setInterval(..., 1000) of the countdown
TickMs == 1000

\* setTimeout(..., 2000) of the impression report
DebounceMs == 2000

\* durationMinutes * 60 * 1000
MsPerMinute == 60000

\* The widget's clock runs over 0..MaxClock.
MaxClock == 125000

Digits == <<"0", "1", "2", "3", "4", "5", "6", "7", "8", "9">>

\* String(n) for an integer n >= 0: its decimal digits.
RECURSIVE ToStr(_)
ToStr(n) ==
    IF n < 10 THEN <<Digits[n + 1]>>
    ELSE ToStr(n \div 10) \o <<Digits[(n % 10) + 1]>>

DigitValue(c) == CHOOSE d \in 0..9 : Digits[d + 1] = c

\* The value of the longest prefix of s made of digits, continuing acc.
RECURSIVE DigitsPrefix(_, _)
DigitsPrefix(s, acc) ==
    IF s = <<>> \/ Head(s) \notin Range(Digits) THEN acc
    ELSE DigitsPrefix(Tail(s), 10 * acc + DigitValue(Head(s)))

\* parseInt(s, 10): leading blanks are skipped, then the digits are read up
\* to the first other character; NaN when there is no digit to read.
ParseInt(s) ==
    LET t == TrimStart(s) IN
    IF t = <<>> \/ Head(t) \notin Range(Digits) THEN NaN
    ELSE Num(DigitsPrefix(t, 0))

\* An entry of localStorage under the timer's key: getItem gives null when
\* there is none.
NoEntry == [present |-> FALSE, s |-> <<>>]

Entry(s) == [present |-> TRUE, s |-> s]

\* How localStorage behaves on a page load: every call works ("none"),
\* setItem throws because the quota is used up or the browser forbids writes
\* ("setItem"), or every call throws because the store is unavailable ("all").
StorageFaults == {"none", "setItem", "all"}

\* The timer data of a response, as the widget keeps it.
NoTimer == [present |-> FALSE, id |-> 0, type |-> "", endDate |-> Undefined,
            durationMinutes |-> Undefined]

TimerData(d) == [present |-> TRUE, id |-> d.id, type |-> d.type,
                 endDate |-> d.endDate, durationMinutes |-> d.durationMinutes]

\* new Date(timer.endDate).getTime()
GetTime(d) == IF d.k = "date" THEN Num(d.v) ELSE NaN

\* The resolution that starts afresh whatever the store holds.
SetupTimerEndpointForgetful(timer, store, n, fault) ==
    IF timer.type = "fixed"
    THEN [endTime |-> GetTime(timer.endDate), storage |-> store, threw |-> FALSE]
    ELSE LET durationMs == Times(timer.durationMinutes, Num(MsPerMinute)) IN
         IF fault \in {"all", "setItem"}
         THEN [endTime |-> Plus(Num(n), durationMs), storage |-> store, threw |-> TRUE]
         ELSE [endTime |-> Plus(Num(n), durationMs), storage |-> Entry(ToStr(n)),
               threw |-> FALSE]

\* The resolution that rearms only when elapsed > duration.
SetupTimerEndpointStrict(timer, store, n, fault) ==
    IF timer.type = "fixed"
    THEN [endTime |-> GetTime(timer.endDate), storage |-> store, threw |-> FALSE]
    ELSE LET durationMs == Times(timer.durationMinutes, Num(MsPerMinute))
             caught == [endTime |-> Plus(Num(n), durationMs), storage |-> store,
                        threw |-> TRUE]
             saved == [endTime |-> Plus(Num(n), durationMs),
                       storage |-> Entry(ToStr(n)), threw |-> FALSE]
         IN
         IF fault = "all" THEN caught
         ELSE IF store.present /\ store.s # <<>>
         THEN LET startTime == ParseInt(store.s)
                  elapsed == Minus(Num(n), startTime)
              IN IF NumGte(elapsed, Plus(durationMs, Num(1)))
                 THEN IF fault = "setItem"
                      THEN [caught EXCEPT !.storage = NoEntry]
                      ELSE saved
                 ELSE [endTime |-> Plus(startTime, durationMs), storage |-> store,
                       threw |-> FALSE]
         ELSE IF fault = "setItem" THEN caught ELSE saved

\* The resolution without its catch block: a throwing store leaves the
\* start undefined.
SetupTimerEndpointUncaught(timer, store, n, fault) ==
    IF timer.type = "fixed"
    THEN [endTime |-> GetTime(timer.endDate), storage |-> store, threw |-> FALSE]
    ELSE LET durationMs == Times(timer.durationMinutes, Num(MsPerMinute))
             caught == [endTime |-> NaN, storage |-> store, threw |-> TRUE]
             saved == [endTime |-> Plus(Num(n), durationMs),
                       storage |-> Entry(ToStr(n)), threw |-> FALSE]
         IN
         IF fault = "all" THEN caught
         ELSE IF store.present /\ store.s # <<>>
         THEN LET startTime == ParseInt(store.s)
                  elapsed == Minus(Num(n), startTime)
              IN IF NumGte(elapsed, durationMs)
                 THEN IF fault = "setItem"
                      THEN [caught EXCEPT !.storage = NoEntry]
                      ELSE saved
                 ELSE [endTime |-> Plus(startTime, durationMs), storage |-> store,
                       threw |-> FALSE]
         ELSE IF fault = "setItem" THEN caught ELSE saved

\* setupTimerEndpoint at instant n: the end instant the widget counts down
\* to, the visitor store afterwards, and whether a localStorage call threw.
\* fault tells which localStorage calls throw.
SetupTimerEndpoint(timer, store, n, fault) ==
    IF timer.type = "fixed"
    THEN [endTime |-> GetTime(timer.endDate), storage |-> store, threw |-> FALSE]
    ELSE IF timer.type = "evergreen"
    THEN LET durationMs == Times(timer.durationMinutes, Num(MsPerMinute))
             caught == [endTime |-> Plus(Num(n), durationMs), storage |-> store,
                        threw |-> TRUE]
             saved == [endTime |-> Plus(Num(n), durationMs),
                       storage |-> Entry(ToStr(n)), threw |-> FALSE]
         IN
         IF fault = "all" THEN caught
         ELSE IF store.present /\ store.s # <<>>
         THEN LET startTime == ParseInt(store.s)
                  elapsed == Minus(Num(n), startTime)
              IN IF NumGte(elapsed, durationMs)
                 THEN IF fault = "setItem"
                      THEN [caught EXCEPT !.storage = NoEntry]
                      ELSE saved
                 ELSE [endTime |-> Plus(startTime, durationMs), storage |-> store,
                       threw |-> FALSE]
         ELSE IF fault = "setItem" THEN caught ELSE saved
    ELSE [endTime |-> Undefined, storage |-> store, threw |-> FALSE]

\* parseTimeRemaining(ms).expired: ms <= 0
Expired(remaining) == NumLte(remaining, Num(0))

----------------------------------------------------------------------------
\* The storefront widget: one CountdownTimer instance and its callbacks.

\* parseTimeRemaining(ms) for ms > 0, as the text updateCountdown writes.
ParseTimeRemaining(ms) ==
    IF ~IsNum(ms) THEN [hours |-> NaN, minutes |-> NaN, seconds |-> NaN]
    ELSE LET totalSeconds == ms.v \div 1000 IN
         [hours |-> Num(totalSeconds \div 3600),
          minutes |-> Num((totalSeconds % 3600) \div 60),
          seconds |-> Num(totalSeconds % 60)]

\* The text render() writes: 00:00:00
ZeroText == [hours |-> Num(0), minutes |-> Num(0), seconds |-> Num(0)]

\* The instance right after its constructor: init() has issued the fetch.
NewWidget ==
    [timer |-> NoTimer, endTime |-> Undefined, intervalId |-> 0,
     impressionSent |-> FALSE, html |-> FALSE, display |-> "", text |-> ZeroText]

\* What the event loop and the network hold for the instance: the fetch of
\* the timer (in flight, or how it ended), the live intervals (id and next due instant), the restart and
\* debounce timeouts (due instants, oldest first) and the impression post.
NewSched ==
    [fetch |-> "inflight", intervals |-> {}, restarts |-> <<>>,
     debounce |-> <<>>, post |-> "none"]

\* What the instance has done so far: requests issued, renders (and the
\* instant of the last), countdown
\* runs started (a run is one call of startCountdown; its interval carries
\* the run's number as id), per run the number of expiry signals and whether
\* a tick came after the first of them, whether destroy was called and what
\* happened after it, the instants of the evergreen expiries whose restart
\* is still to come, the time the last restart came after its expiry, and
\* the last resolution of the end instant.
NoResolve == [count |-> 0, at |-> 0, before |-> NoEntry, after |-> NoEntry,
              endTime |-> Undefined, threw |-> FALSE]

NewLog ==
    [fetches |-> 1, posts |-> 0, renders |-> 0, runs |-> 0, signals |-> <<>>,
     lateTick |-> <<>>, destroyed |-> FALSE, tickAfterDestroy |-> FALSE,
     startAfterDestroy |-> FALSE, renderAfterDestroy |-> FALSE,
     renderedAt |-> Undefined,
     expiredAt |-> <<>>, restartGap |-> Undefined, resolve |-> NoResolve]

\* The instance with everything around it, as the handlers transform it.
Machine(w, s, st, l) == [w |-> w, s |-> s, st |-> st, l |-> l]

\* setupTimerEndpoint() on the instance
Resolve(m, n, fault) ==
    LET r == SetupTimerEndpoint(m.w.timer, m.st, n, fault) IN
    [m EXCEPT !.w.endTime = r.endTime,
              !.st = r.storage,
              !.l.resolve = [count |-> @.count + 1, at |-> n, before |-> m.st,
                             after |-> r.storage, endTime |-> r.endTime,
                             threw |-> r.threw]]

\* handleExpired(), reached from updateCountdown of run `run`
HandleExpired(m, n, run, fault) ==
    LET cleared ==
            [m EXCEPT !.s.intervals = {i \in @ : i.id # m.w.intervalId},
                      !.w.intervalId = 0,
                      !.l.signals[run] = @ + 1]
    IN IF m.w.timer.type = "evergreen"
       THEN [cleared EXCEPT
                !.st = IF fault = "all" THEN @ ELSE NoEntry,
                !.s.restarts = Append(@, n + RestartDelayMs),
                !.l.expiredAt = Append(@, n)]
       ELSE [cleared EXCEPT !.w.display = "none"]

\* updateCountdown() at instant n
UpdateCountdown(m, n, run, fault) ==
    LET remaining == Minus(m.w.endTime, Num(n)) IN
    IF Expired(remaining) THEN HandleExpired(m, n, run, fault)
    ELSE IF m.w.html THEN [m EXCEPT !.w.text = ParseTimeRemaining(remaining)]
    ELSE m

\* startCountdown() at instant n: the first update, then the interval
StartCountdown(m, n, fault) ==
    LET run == m.l.runs + 1
        begun == [m EXCEPT !.l.runs = run,
                           !.l.signals = Append(@, 0),
                           !.l.lateTick = Append(@, FALSE),
                           !.l.startAfterDestroy = @ \/ m.l.destroyed]
        updated == UpdateCountdown(begun, n, run, fault)
    IN [updated EXCEPT !.w.intervalId = run,
                       !.s.intervals = @ \cup {[id |-> run, due |-> n + TickMs]}]

\* render() at instant n
Render(m, n) ==
    [m EXCEPT !.w.html = TRUE, !.w.text = ZeroText,
              !.l.renders = @ + 1,
              !.l.renderedAt = Num(n),
              !.l.renderAfterDestroy = @ \/ m.l.destroyed]

\* trackImpression() reporting at once, without the debounce.
TrackImpressionAtOnce(m, n) ==
    IF m.w.impressionSent THEN m
    ELSE [m EXCEPT !.w.impressionSent = TRUE,
                   !.l.posts = @ + 1,
                   !.s.post = "inflight"]

\* trackImpression() waiting one tick only.
TrackImpressionHasty(m, n) ==
    IF m.w.impressionSent THEN m
    ELSE [m EXCEPT !.s.debounce = Append(@, n + TickMs)]

\* trackImpression() at instant n
TrackImpression(m, n) ==
    IF m.w.impressionSent THEN m
    ELSE [m EXCEPT !.s.debounce = Append(@, n + DebounceMs)]

----------------------------------------------------------------------------
\* The widget on a page: replies, the visitor store and the event loop.

\* What the visitor store may hold under the timer's key when the page
\* loads: nothing, a start (here the instant 0), something that is not a
\* number, or a start that lies in the future.
InitialEntries == {NoEntry, Entry(ToStr(0)), Entry(S1("x")), Entry(ToStr(90000))}

\* The end dates of the fixed timers the widget is served.
FixedEnds == {DateOf(500), DateOf(3000)}

\* The timers the read path serves to the widget.
ServedTimers ==
    {BuildResponse(TimerDoc(1, S1("a"), TRUE, FixedWindow(DateOf(0), e),
                            AllTargeting, NoAppearance, 1)) : e \in FixedEnds}
    \cup {BuildResponse(TimerDoc(2, S1("a"), TRUE, Evergreen1, AllTargeting,
                                 NoAppearance, 1))}

\* How the fetch of the timer may end: the request fails, the status is 404
\* or another non-OK one, the body is not JSON, the body is unsuccessful or
\* without data, or the body carries a timer.
FetchFailures ==
    {"networkError", "notFound", "serverError", "badJson", "unsuccessful"}

FetchReplies ==
    [kind : FetchFailures, data : {NoData}]
    \cup [kind : {"timer"}, data : ServedTimers]

\* fetchTimer() taking any body that parses for a timer.
TimerOfUnchecked(reply) ==
    IF reply.kind \in {"timer", "unsuccessful"} THEN TimerData(reply.data) ELSE NoTimer

\* The timer fetchTimer() keeps of a reply: the data of an OK response whose
\* body parses and has success and data; otherwise none.
TimerOf(reply) ==
    IF reply.kind = "timer" THEN TimerData(reply.data) ELSE NoTimer

\* Instants at which the page or the network may act beside the instants at
\* which a callback is due.
PageInstants == {0, 500, 59999, 60000}

\* The instants at which a timeout or an interval of the instance is due.
Dues(s) ==
    {i.due : i \in s.intervals} \cup Range(s.restarts) \cup Range(s.debounce)

Min(S) == CHOOSE x \in S : \A y \in S : x <= y

----------------------------------------------------------------------------
\* The storefront router over the document store.

IdleStatus ==
    /\ subject = [present |-> FALSE, isActive |-> FALSE, type |-> "fixed",
                  startDate |-> Undefined, endDate |-> Undefined]
    /\ status = StatusNotRead

IdleMatch ==
    /\ target = NoTargeting
    /\ ctx = [productId |-> NoString, collectionIds |-> {}]
    /\ matched = NotMatched

IdleStore ==
    /\ timers = {}
    /\ resp = NoResponse

IdleWidget ==
    /\ storage = NoEntry
    /\ storeMode = "none"
    /\ widget = NewWidget
    /\ sched = [NewSched EXCEPT !.fetch = "none"]
    /\ log = [NewLog EXCEPT !.fetches = 0]

\* No report is in flight and nothing is on record about the creation of the
\* stored documents.
IdleAdmin ==
    /\ origin = <<>>
    /\ reports = [pending |-> <<>>, applied |-> <<>>]

\* No countdown has been computed.
NotShown == [computed |-> FALSE, endDate |-> 0, at |-> 0,
             widget |-> [expired |-> FALSE, text |-> <<>>],
             utils |-> [expired |-> FALSE, text |-> <<>>]]

IdleDisplay == shown = NotShown

\* There is no second instance on the page.
IdlePeer == peer = [w |-> NewWidget, s |-> [NewSched EXCEPT !.fetch = "none"],
                    l |-> [NewLog EXCEPT !.fetches = 0]]

Init ==
    /\ now = 0
    /\ timers \in RouterStores
    /\ resp = NoResponse
    /\ IdleStatus
    /\ IdleMatch
    /\ IdleWidget
    /\ IdleAdmin
    /\ IdlePeer
    /\ IdleDisplay

\* The read path counting an impression for the timer it returns.
GetTimerCounting ==
    \E req \in TimerRequests, storeFails \in BOOLEAN :
        /\ resp' \in TimerResponses(timers, req, now, storeFails)
        /\ timers' = {IF resp'.status = 200 /\ t._id = resp'.data.id
                         /\ t.impressions < MaxImpressions
                      THEN [t EXCEPT !.impressions = @ + 1] ELSE t : t \in timers}
        /\ UNCHANGED <<now, subject, status, target, ctx, matched, widgetVars, adminVars, peer, shown>>

\* GET /api/storefront/timer
GetTimer ==
    \E req \in TimerRequests, storeFails \in BOOLEAN :
        /\ resp' \in TimerResponses(timers, req, now, storeFails)
        /\ UNCHANGED <<now, timers, subject, status, target, ctx, matched, widgetVars, adminVars, peer, shown>>

\* POST /api/storefront/timer/:id/impression
PostImpression ==
    \E req \in ImpressionRequests, storeFails \in BOOLEAN :
        LET out == ImpressionOutcome(timers, req, now, storeFails) IN
        /\ \A t \in out.timers : t.impressions <= MaxImpressions
        /\ resp' = out.resp
        /\ timers' = out.timers
        /\ UNCHANGED <<now, subject, status, target, ctx, matched, widgetVars, adminVars, peer, shown>>

\* Time passes.
Tick ==
    /\ now < MaxTime
    /\ now' = now + 1
    /\ UNCHANGED <<timers, resp, subject, status, target, ctx, matched, widgetVars, adminVars, peer, shown>>

Next == GetTimer \/ PostImpression \/ Tick

Spec == Init /\ [][Next]_vars

\* The public read path alone, over every store the model draws.
InitSelect ==
    /\ now = 0
    /\ timers \in Stores
    /\ resp = NoResponse
    /\ IdleStatus
    /\ IdleMatch
    /\ IdleWidget
    /\ IdleAdmin
    /\ IdlePeer
    /\ IdleDisplay

NextSelect == GetTimer \/ Tick

SpecSelect == InitSelect /\ [][NextSelect]_vars

----------------------------------------------------------------------------
\* The status functions over every timer object and instant.

\* One absent record, and every present one.
StatusInputs == {t \in StatusSubjects : t.present \/ (~t.isActive /\ t.type = "fixed"
                    /\ t.startDate = Undefined /\ t.endDate = Undefined)}

InitStatus ==
    /\ now = 0
    /\ subject \in StatusInputs
    /\ status = StatusNotRead
    /\ IdleMatch
    /\ IdleStore
    /\ IdleWidget
    /\ IdleAdmin
    /\ IdlePeer
    /\ IdleDisplay

\* The status of the timer is read at the current instant.
StatusRead ==
    /\ status' = ComputeStatus(subject, now)
    /\ UNCHANGED <<now, subject, target, ctx, matched, timers, resp, widgetVars, adminVars, peer, shown>>

\* Time passes from now to any later instant; the status is read again.
StatusAdvance ==
    \E n \in (now + 1)..MaxTime :
        /\ now' = n
        /\ status' = ComputeStatus(subject, n)
        /\ UNCHANGED <<subject, target, ctx, matched, timers, resp, widgetVars, adminVars, peer, shown>>

\* The configuration changes; the status is read again.
StatusReconfigure ==
    \E t \in StatusInputs :
        /\ t # subject
        /\ subject' = t
        /\ status' = ComputeStatus(t, now)
        /\ UNCHANGED <<now, target, ctx, matched, timers, resp, widgetVars, adminVars, peer, shown>>

NextStatus == StatusRead \/ StatusAdvance \/ StatusReconfigure

SpecStatus == InitStatus /\ [][NextStatus]_vars

----------------------------------------------------------------------------
\* The targeting matchers over every targeting and context.

InitMatch ==
    /\ now = 0
    /\ target \in Targetings
    /\ ctx \in Contexts
    /\ matched = NotMatched
    /\ IdleStatus
    /\ IdleStore
    /\ IdleWidget
    /\ IdleAdmin
    /\ IdlePeer
    /\ IdleDisplay

\* The matchers are asked about the timer and the context.
MatchApply ==
    /\ matched' = ComputeMatches(target, ctx)
    /\ UNCHANGED <<now, subject, status, target, ctx, timers, resp, widgetVars, adminVars, peer, shown>>

\* The matchers are asked about the same timer in another context.
MatchContext ==
    \E c \in Contexts :
        /\ c # ctx
        /\ ctx' = c
        /\ matched' = ComputeMatches(target, c)
        /\ UNCHANGED <<now, subject, status, target, timers, resp, widgetVars, adminVars, peer, shown>>

NextMatch == MatchApply \/ MatchContext

SpecMatch == InitMatch /\ [][NextMatch]_vars

----------------------------------------------------------------------------
\* The widget instance on a page.

TheMachine == Machine(widget, sched, storage, log)

\* The instance takes over what a handler made of it.
Becomes(m) ==
    /\ widget' = m.w
    /\ sched' = m.s
    /\ storage' = m.st
    /\ log' = m.l

InitWidget ==
    /\ now = 0
    /\ storage \in InitialEntries
    /\ storeMode \in StorageFaults
    /\ widget = NewWidget
    /\ sched = NewSched
    /\ log = NewLog
    /\ IdleStatus
    /\ IdleMatch
    /\ IdleStore
    /\ IdleAdmin
    /\ IdlePeer
    /\ IdleDisplay

\* The fetch of init() settles: fetchTimer() takes the reply and, for a
\* timer, resolves the end instant; init() then renders, starts the
\* countdown and schedules the impression. By the time the countdown reads
\* the clock it may have moved on to the next millisecond; the model follows
\* that where the next millisecond is one of the page instants.
FetchSettles ==
    \E reply \in FetchReplies, later \in 0..1 :
        /\ sched.fetch = "inflight"
        /\ later = 1 => now + 1 \in PageInstants
        /\ now' = now + later
        /\ LET settled == [TheMachine EXCEPT !.s.fetch = reply.kind]
               timer == TimerOf(reply)
           IN
           IF ~timer.present THEN Becomes(settled)
           ELSE LET fetched == [settled EXCEPT !.w.timer = timer]
                    resolved == Resolve(fetched, now, storeMode)
                    rendered == Render(resolved, now')
                    started == StartCountdown(rendered, now', storeMode)
                IN Becomes(TrackImpression(started, now'))
        /\ UNCHANGED <<storeMode, engineVars, adminVars, peer, shown>>

\* The callback of a live interval runs.
IntervalFires ==
    \E i \in sched.intervals :
        /\ i.due <= now
        /\ LET counted ==
                   [TheMachine EXCEPT
                       !.l.lateTick[i.id] = @ \/ log.signals[i.id] > 0,
                       !.l.tickAfterDestroy = @ \/ log.destroyed]
               updated == UpdateCountdown(counted, now, i.id, storeMode)
           IN Becomes([updated EXCEPT
                          !.s.intervals =
                              IF i \in @
                              THEN (@ \ {i}) \cup {[id |-> i.id, due |-> now + TickMs]}
                              ELSE @])
        /\ UNCHANGED <<now, storeMode, engineVars, adminVars, peer, shown>>

\* The restart timeout of handleExpired runs: setupTimerEndpoint(), then
\* startCountdown().
RestartFires ==
    /\ sched.restarts # <<>>
    /\ Head(sched.restarts) <= now
    /\ LET popped == [TheMachine EXCEPT
                         !.s.restarts = Tail(@),
                         !.l.restartGap = Num(now - Head(log.expiredAt)),
                         !.l.expiredAt = Tail(@)]
           resolved == Resolve(popped, now, storeMode)
       IN Becomes(StartCountdown(resolved, now, storeMode))
    /\ UNCHANGED <<now, storeMode, engineVars, adminVars, peer, shown>>

\* The debounce timeout of trackImpression runs and posts the impression.
DebounceFires ==
    /\ sched.debounce # <<>>
    /\ Head(sched.debounce) <= now
    /\ LET popped == [TheMachine EXCEPT !.s.debounce = Tail(@)] IN
       IF widget.impressionSent THEN Becomes(popped)
       ELSE Becomes([popped EXCEPT !.w.impressionSent = TRUE,
                                   !.l.posts = @ + 1,
                                   !.s.post = "inflight"])
    /\ UNCHANGED <<now, storeMode, engineVars, adminVars, peer, shown>>

\* The impression post settles, with any answer or none: the widget does
\* not look at it.
PostSettles ==
    /\ sched.post = "inflight"
    /\ sched' = [sched EXCEPT !.post = "settled"]
    /\ UNCHANGED <<now, storage, storeMode, widget, log, engineVars, adminVars, peer, shown>>

\* destroy()
Destroy ==
    /\ Becomes([TheMachine EXCEPT
                   !.s.intervals = {i \in @ : i.id # widget.intervalId},
                   !.w.intervalId = 0,
                   !.w.html = FALSE,
                   !.l.destroyed = TRUE])
    /\ UNCHANGED <<now, storeMode, engineVars, adminVars, peer, shown>>

\* The visitor loads the page again, at one of the page instants: a new
\* instance and the same visitor store, which may behave differently now.
Reload ==
    /\ now \in PageInstants
    /\ storeMode' \in StorageFaults
    /\ widget' = NewWidget
    /\ sched' = NewSched
    /\ log' = NewLog
    /\ UNCHANGED <<now, storage, engineVars, adminVars, peer, shown>>

\* Time passes up to the next instant at which something may happen; a
\* callback that is due runs before the clock moves on.
WidgetClock ==
    LET next == {c \in Dues(sched) \cup PageInstants : c > now /\ c <= MaxClock} IN
    /\ \A d \in Dues(sched) : d > now
    /\ next # {}
    /\ now' = Min(next)
    /\ UNCHANGED <<storage, storeMode, widget, sched, log, engineVars, adminVars, peer, shown>>

NextWidget ==
    \/ FetchSettles
    \/ IntervalFires
    \/ RestartFires
    \/ DebounceFires
    \/ PostSettles
    \/ Destroy
    \/ Reload
    \/ WidgetClock

SpecWidget == InitWidget /\ [][NextWidget]_vars

\* The event loop runs every callback that is due, and time passes.
SpecWidgetLive ==
    /\ SpecWidget
    /\ WF_vars(WidgetClock)
    /\ WF_vars(IntervalFires)
    /\ WF_vars(RestartFires)
    /\ WF_vars(DebounceFires)

----------------------------------------------------------------------------
\* The admin router (the authenticated routes under /api/timers) and the
\* Timer schema its saves are validated against.

\* The ids of the timer documents: the one the session's shop creates, and
\* the one another shop has created before.
DocIds == 1..2

\* The shop of the authenticated session (req.shop), and another one.
SessionShop == S1("a")

OtherShop == S1("b")

\* The :id parameters of the admin routes: one that has not the ObjectId
\* format, and the two ids.
AdminIds == {[valid |-> FALSE, oid |-> 1]} \cup [valid : {TRUE}, oid : DocIds]

\* The longest evergreen duration, in minutes.
MaxDuration == 10080

\* The shortest one.
MinDuration == 1

\* end <= start on two Dates: false as soon as one side is NaN.
DateLte(a, b) == a.k = "date" /\ b.k = "date" /\ a.v <= b.v

\* A request body. name and type are strings, "" standing for a key the
\* body does not carry; the other keys are absent (Undefined, NoString) or
\* hold a value. The bodies drawn carry no appearance and no targeting, and
\* a name that sanitizeInput leaves as it is.
NoBody ==
    [name |-> "", type |-> "", startDate |-> Undefined, endDate |-> Undefined,
     durationMinutes |-> Undefined, shop |-> NoString, impressions |-> Undefined]

NamedBody == [NoBody EXCEPT !.name = "timer"]

\* Bodies of a fixed timer, with or without the type: an end after, at and
\* before the start, a date missing, an end that is not a date.
FixedBodies ==
    {[NamedBody EXCEPT !.type = type, !.startDate = w[1], !.endDate = w[2]] :
        type \in {"", "fixed"},
        w \in {<<DateOf(1), DateOf(2)>>, <<DateOf(1), DateOf(1)>>,
               <<DateOf(2), DateOf(1)>>, <<Undefined, DateOf(2)>>,
               <<DateOf(1), Undefined>>, <<DateOf(1), Unparseable>>}}

\* Bodies of an evergreen timer: durations at and outside both ends of the
\* range, or none.
EvergreenBodies ==
    {[NamedBody EXCEPT !.type = "evergreen", !.durationMinutes = d] :
        d \in {Undefined, Num(0), Num(MinDuration), Num(MaxDuration),
               Num(MaxDuration + 1)}}
    \cup {[NamedBody EXCEPT !.durationMinutes = d] :
             d \in {Undefined, Num(MaxDuration), Num(MaxDuration + 1)}}

\* Bodies that carry more than the form sends: no name, an unknown type, a
\* fixed timer with a duration, another shop, an impressions counter.
OtherBodies ==
    LET fixed == [NamedBody EXCEPT !.type = "fixed", !.startDate = DateOf(1),
                                   !.endDate = DateOf(2)]
        evergreen == [NamedBody EXCEPT !.type = "evergreen",
                                       !.durationMinutes = Num(MinDuration)]
    IN {[evergreen EXCEPT !.name = ""],
        [evergreen EXCEPT !.type = "bogus"],
        [fixed EXCEPT !.durationMinutes = Num(0)],
        [fixed EXCEPT !.shop = Str(S2(" ", "B"))],
        [evergreen EXCEPT !.type = "", !.shop = Str(S2(" ", "B"))],
        [fixed EXCEPT !.impressions = Num(0)],
        [evergreen EXCEPT !.type = "", !.impressions = Num(0)],
        [evergreen EXCEPT !.type = "", !.impressions = Num(MaxImpressions)],
        [evergreen EXCEPT !.type = "", !.impressions = Num(0 - 1)]}

AdminBodies == FixedBodies \cup EvergreenBodies \cup OtherBodies

\* The appearance a created timer gets when the body carries none.
DefaultAppearance ==
    [present |-> TRUE, backgroundColor |-> "#000000", textColor |-> "#FFFFFF",
     position |-> "above-cart", headline |-> "Hurry! Offer ends soon",
     supportingText |-> ""]

\* validateTimerInput(data, isUpdate): the fields it reports an error for.
ValidateTimerInput(data, isUpdate) ==
    (IF ~isUpdate /\ data.name = "" THEN {"name"} ELSE {})
    \cup (IF ~isUpdate /\ data.type \notin {"fixed", "evergreen"} THEN {"type"} ELSE {})
    \cup (IF data.type = "fixed"
          THEN (IF data.startDate.k = "undefined" THEN {"startDate"} ELSE {})
               \cup (IF data.endDate.k = "undefined" THEN {"endDate"} ELSE {})
               \cup (IF data.startDate.k # "undefined" /\ data.endDate.k # "undefined"
                     THEN LET start == NewDate(data.startDate)
                              end == NewDate(data.endDate)
                          IN (IF start = InvalidDate THEN {"startDate"} ELSE {})
                             \cup (IF end = InvalidDate THEN {"endDate"} ELSE {})
                             \cup (IF DateLte(end, start) THEN {"endDate"} ELSE {})
                     ELSE {})
          ELSE {})
    \cup (IF data.type = "evergreen"
          THEN (IF \/ data.durationMinutes.k = "undefined"
                   \/ data.durationMinutes.v = 0
                   \/ data.durationMinutes.v < MinDuration
                THEN {"durationMinutes"} ELSE {})
               \cup (IF /\ data.durationMinutes.k = "number"
                        /\ data.durationMinutes.v > MaxDuration
                     THEN {"durationMinutes"} ELSE {})
          ELSE {})

\* The paths of a document that timerSchema rejects when it is saved:
\* required fields, the enum of type, dates that do not cast, the endDate
\* validator, and the limits of durationMinutes and impressions.
SchemaErrors(doc) ==
    (IF doc.shop = <<>> THEN {"shop"} ELSE {})
    \cup (IF doc.name = "" THEN {"name"} ELSE {})
    \cup (IF doc.type \notin {"fixed", "evergreen"} THEN {"type"} ELSE {})
    \cup (IF \/ doc.startDate.k = "string"
             \/ (doc.type = "fixed" /\ doc.startDate.k = "undefined")
          THEN {"startDate"} ELSE {})
    \cup (IF \/ doc.endDate.k = "string"
             \/ (doc.type = "fixed" /\ doc.endDate.k = "undefined")
             \/ /\ doc.endDate.k = "date"
                /\ doc.type = "fixed"
                /\ doc.startDate.k = "date"
                /\ ~DateGt(doc.endDate, doc.startDate)
          THEN {"endDate"} ELSE {})
    \cup (IF \/ (doc.type = "evergreen" /\ doc.durationMinutes.k = "undefined")
             \/ /\ doc.durationMinutes.k = "number"
                /\ (doc.durationMinutes.v < MinDuration
                    \/ doc.durationMinutes.v > MaxDuration)
          THEN {"durationMinutes"} ELSE {})
    \cup (IF doc.impressions < 0 THEN {"impressions"} ELSE {})

\* Object.assign(doc, data): every key of the body is set on the document,
\* the shop through the schema's lowercase and trim.
Assign(doc, data) ==
    [doc EXCEPT
        !.name = IF data.name # "" THEN data.name ELSE @,
        !.type = IF data.type # "" THEN data.type ELSE @,
        !.startDate = IF data.startDate.k # "undefined" THEN data.startDate ELSE @,
        !.endDate = IF data.endDate.k # "undefined" THEN data.endDate ELSE @,
        !.durationMinutes =
            IF data.durationMinutes.k # "undefined" THEN data.durationMinutes ELSE @,
        !.shop = IF data.shop.def THEN NormalizeShop(data.shop.s) ELSE @,
        !.impressions = IF data.impressions.k = "number" THEN data.impressions.v ELSE @]

\* new Timer({ shop }) before the body's keys: the schema's defaults.
NewTimer(id, shop, n) ==
    [_id |-> id, shop |-> shop, name |-> "", type |-> "",
     startDate |-> Undefined, endDate |-> Undefined, durationMinutes |-> Undefined,
     targeting |-> AllTargeting, appearance |-> DefaultAppearance,
     impressions |-> 0, isActive |-> TRUE, createdAt |-> n]

\* What a response shows of a timer document.
Shown(t) == [id |-> t._id, shop |-> t.shop, type |-> t.type]

\* A response of the admin router to a request of the session's shop:
\* the route, the :id it named (0 for none), the status and the timers in
\* its data.
AdminResponse(op, shop, id, code, returned) ==
    [op |-> op, shop |-> shop, id |-> id, status |-> code, returned |-> returned]

\* The outcome of router.post('/') for the session's shop: the response and
\* the collection after it. id is the _id the new document gets.
CreateOutcome(store, shop, data, id, n, storeFails) ==
    LET errors == ValidateTimerInput(data, FALSE)
        timer == [Assign(NewTimer(id, shop, n), data) EXCEPT !.shop = shop]
    IN IF errors # {} \/ SchemaErrors(timer) # {}
       THEN [resp |-> AdminResponse("create", shop, 0, 400, {}), timers |-> store]
       ELSE IF storeFails
       THEN [resp |-> AdminResponse("create", shop, 0, 500, {}), timers |-> store]
       ELSE [resp |-> AdminResponse("create", shop, id, 201, {Shown(timer)}),
             timers |-> store \cup {timer}]

\* Timer.findOne({ _id: id, shop }) and its siblings: the documents of the
\* shop under that id.
FindOne(store, id, shop) == {t \in store : t._id = id /\ t.shop = shop}

\* router.put('/:id') saving whatever the body holds.
UpdateOutcomeUnvalidated(store, shop, id, data, storeFails) ==
    IF ~id.valid
    THEN [resp |-> AdminResponse("update", shop, id.oid, 400, {}), timers |-> store]
    ELSE IF storeFails
    THEN [resp |-> AdminResponse("update", shop, id.oid, 500, {}), timers |-> store]
    ELSE IF FindOne(store, id.oid, shop) = {}
    THEN [resp |-> AdminResponse("update", shop, id.oid, 404, {}), timers |-> store]
    ELSE LET existingTimer == CHOOSE t \in FindOne(store, id.oid, shop) : TRUE
             saved == Assign(existingTimer, [data EXCEPT !.type = "", !.shop = NoString,
                                                         !.impressions = Undefined])
         IN IF saved.startDate.k = "string" \/ saved.endDate.k = "string"
            THEN [resp |-> AdminResponse("update", shop, id.oid, 400, {}),
                  timers |-> store]
            ELSE [resp |-> AdminResponse("update", shop, id.oid, 200, {Shown(saved)}),
                  timers |-> (store \ {existingTimer}) \cup {saved}]

\* The outcome of router.put('/:id'). The save writes the paths the body
\* assigned and no other.
UpdateOutcome(store, shop, id, data, storeFails) ==
    IF ~id.valid
    THEN [resp |-> AdminResponse("update", shop, id.oid, 400, {}), timers |-> store]
    ELSE IF storeFails
    THEN [resp |-> AdminResponse("update", shop, id.oid, 500, {}), timers |-> store]
    ELSE IF FindOne(store, id.oid, shop) = {}
    THEN [resp |-> AdminResponse("update", shop, id.oid, 404, {}), timers |-> store]
    ELSE LET existingTimer == CHOOSE t \in FindOne(store, id.oid, shop) : TRUE
             timerType == IF data.type # "" THEN data.type ELSE existingTimer.type
             validationData == [data EXCEPT !.type = timerType]
             errors == ValidateTimerInput(validationData, TRUE)
             saved == Assign(existingTimer, data)
         IN IF errors # {} \/ SchemaErrors(saved) # {}
            THEN [resp |-> AdminResponse("update", shop, id.oid, 400, {}),
                  timers |-> store]
            ELSE [resp |-> AdminResponse("update", shop, id.oid, 200, {Shown(saved)}),
                  timers |-> (store \ {existingTimer}) \cup {saved}]

\* The outcome of router.delete('/:id').
DeleteOutcome(store, shop, id, storeFails) ==
    IF ~id.valid
    THEN [resp |-> AdminResponse("delete", shop, id.oid, 400, {}), timers |-> store]
    ELSE IF storeFails
    THEN [resp |-> AdminResponse("delete", shop, id.oid, 500, {}), timers |-> store]
    ELSE IF FindOne(store, id.oid, shop) = {}
    THEN [resp |-> AdminResponse("delete", shop, id.oid, 404, {}), timers |-> store]
    ELSE [resp |-> AdminResponse("delete", shop, id.oid, 200, {}),
          timers |-> store \ FindOne(store, id.oid, shop)]

\* The outcome of router.patch('/:id/toggle').
ToggleOutcome(store, shop, id, storeFails) ==
    IF ~id.valid
    THEN [resp |-> AdminResponse("toggle", shop, id.oid, 400, {}), timers |-> store]
    ELSE IF storeFails
    THEN [resp |-> AdminResponse("toggle", shop, id.oid, 500, {}), timers |-> store]
    ELSE IF FindOne(store, id.oid, shop) = {}
    THEN [resp |-> AdminResponse("toggle", shop, id.oid, 404, {}), timers |-> store]
    ELSE LET timer == CHOOSE t \in FindOne(store, id.oid, shop) : TRUE
             saved == [timer EXCEPT !.isActive = ~@]
         IN IF SchemaErrors(saved) # {}
            THEN [resp |-> AdminResponse("toggle", shop, id.oid, 500, {}),
                  timers |-> store]
            ELSE [resp |-> AdminResponse("toggle", shop, id.oid, 200, {Shown(saved)}),
                  timers |-> (store \ {timer}) \cup {saved}]

\* The response of router.get('/:id').
GetOneResponse(store, shop, id, storeFails) ==
    IF ~id.valid THEN AdminResponse("get", shop, id.oid, 400, {})
    ELSE IF storeFails THEN AdminResponse("get", shop, id.oid, 500, {})
    ELSE IF FindOne(store, id.oid, shop) = {}
    THEN AdminResponse("get", shop, id.oid, 404, {})
    ELSE AdminResponse("get", shop, id.oid, 200,
                       {Shown(t) : t \in FindOne(store, id.oid, shop)})

\* The response of router.get('/') with the default page and limit, which
\* hold every document of the model: the shop's timers, of the type asked
\* for if it is one of the two, then those of the status asked for.
ListResponse(store, shop, type, wanted, n, storeFails) ==
    IF storeFails THEN AdminResponse("list", shop, 0, 500, {})
    ELSE LET found == {t \in store : /\ t.shop = shop
                                     /\ (type \in {"fixed", "evergreen"} => t.type = type)}
             kept == {t \in found :
                         wanted \in {"active", "scheduled", "expired", "inactive"} =>
                             TimersWithStatus([present |-> TRUE, isActive |-> t.isActive,
                                               type |-> t.type, startDate |-> t.startDate,
                                               endDate |-> t.endDate], DateOf(n)) = wanted}
         IN AdminResponse("list", shop, 0, 200, {Shown(t) : t \in kept})

\* Nothing is on record about a document that was never created.
NoOrigin == [made |-> FALSE, kind |-> "", shop |-> <<>>]

\* The evergreen timer the other shop has created.
OtherTimer ==
    [Assign(NewTimer(2, OtherShop, 0),
            [NamedBody EXCEPT !.type = "evergreen",
                              !.durationMinutes = Num(MinDuration)])
        EXCEPT !.appearance = NoAppearance]

\* The other shop's timer is in the collection; the session's shop has
\* created none yet.
InitAdmin ==
    /\ now = 0
    /\ timers = {OtherTimer}
    /\ resp = NoResponse
    /\ origin = [i \in DocIds |->
                    IF i = 2 THEN [made |-> TRUE, kind |-> "evergreen", shop |-> OtherShop]
                    ELSE NoOrigin]
    /\ reports = [pending |-> <<>>, applied |-> <<>>]
    /\ IdleStatus
    /\ IdleMatch
    /\ IdleWidget
    /\ IdlePeer
    /\ IdleDisplay

\* POST /api/timers
AdminCreate ==
    \E data \in AdminBodies, storeFails \in BOOLEAN :
        LET unused == {i \in DocIds : ~origin[i].made} IN
        /\ unused # {}
        /\ LET id == Min(unused)
               out == CreateOutcome(timers, SessionShop, data, id, now, storeFails)
           IN /\ timers' = out.timers
              /\ resp' = out.resp
              /\ origin' = IF out.resp.status = 201
                            THEN [origin EXCEPT ![id] = [made |-> TRUE, kind |-> data.type,
                                                         shop |-> SessionShop]]
                            ELSE origin
        /\ UNCHANGED <<now, reports, subject, status, target, ctx, matched, widgetVars, peer, shown>>

\* PUT /api/timers/:id
AdminUpdate ==
    \E id \in AdminIds, data \in AdminBodies, storeFails \in BOOLEAN :
        LET out == UpdateOutcome(timers, SessionShop, id, data, storeFails) IN
        /\ timers' = out.timers
        /\ resp' = out.resp
        /\ UNCHANGED <<now, subject, status, target, ctx, matched, widgetVars, adminVars, peer, shown>>

\* DELETE /api/timers/:id
AdminDelete ==
    \E id \in AdminIds, storeFails \in BOOLEAN :
        LET out == DeleteOutcome(timers, SessionShop, id, storeFails) IN
        /\ timers' = out.timers
        /\ resp' = out.resp
        /\ UNCHANGED <<now, subject, status, target, ctx, matched, widgetVars, adminVars, peer, shown>>

\* PATCH /api/timers/:id/toggle
AdminToggle ==
    \E id \in AdminIds, storeFails \in BOOLEAN :
        LET out == ToggleOutcome(timers, SessionShop, id, storeFails) IN
        /\ timers' = out.timers
        /\ resp' = out.resp
        /\ UNCHANGED <<now, subject, status, target, ctx, matched, widgetVars, adminVars, peer, shown>>

\* GET /api/timers/:id
AdminGet ==
    \E id \in AdminIds, storeFails \in BOOLEAN :
        /\ resp' = GetOneResponse(timers, SessionShop, id, storeFails)
        /\ UNCHANGED <<now, timers, subject, status, target, ctx, matched, widgetVars,
                       adminVars, peer, shown>>

\* GET /api/timers
AdminList ==
    \E type \in {"", "fixed"}, wanted \in {"", "inactive"}, storeFails \in BOOLEAN :
        /\ resp' = ListResponse(timers, SessionShop, type, wanted, now, storeFails)
        /\ UNCHANGED <<now, timers, subject, status, target, ctx, matched, widgetVars,
                       adminVars, peer, shown>>

\* The impression reports that arrive between admin operations: for either
\* document, without a shop in the body.
ReportRequests ==
    [shop : {NoParam}, productId : {NoString}, collectionIds : {NoParam},
     id : [valid : {TRUE}, oid : DocIds]]

\* POST /api/storefront/timer/:id/impression, between admin operations.
ReportImpression ==
    \E req \in ReportRequests :
        LET out == ImpressionOutcome(timers, req, now, FALSE) IN
        /\ \A t \in out.timers : t.impressions <= MaxImpressions
        /\ resp' = out.resp
        /\ timers' = out.timers
        /\ UNCHANGED <<now, subject, status, target, ctx, matched, widgetVars, adminVars, peer, shown>>

NextAdmin ==
    \/ AdminCreate
    \/ AdminUpdate
    \/ AdminDelete
    \/ AdminToggle
    \/ AdminGet
    \/ AdminList
    \/ ReportImpression

\* The admin router and the impression route over one collection.
SpecAdmin == InitAdmin /\ [][NextAdmin]_vars

----------------------------------------------------------------------------
\* Impression reports in flight together.

\* At most this many reports are in flight at once.
MaxInflight == 2

\* The collection the reports run against: a timer of shop "a" under id 1
\* and another one under id 2. No timer has id 3.
ReportedStore ==
    {TimerDoc(1, S1("a"), TRUE, Evergreen1, AllTargeting, CustomAppearance, 1),
     TimerDoc(2, S1("a"), TRUE, FixedWindow(DateOf(1), DateOf(2)), AllTargeting,
              NoAppearance, 2)}

\* The reports that arrive: for timer 1 or for an id that is not stored or
\* has not the ObjectId format; without a shop, with the owner's, with
\* another shop's, or with one that is not a string.
RacingReports ==
    [shop : {NoParam, ArrayParam, StrParam(S2(" ", "A")), StrParam(S1("b"))},
     productId : {NoString}, collectionIds : {NoParam},
     id : {[valid |-> FALSE, oid |-> 1], [valid |-> TRUE, oid |-> 1],
           [valid |-> TRUE, oid |-> 3]}]

\* The report reaches findOneAndUpdate: its id has the ObjectId format and
\* the filter can be built from its shop.
ReachesStore(req) == req.id.valid /\ (Falsy(req.shop) \/ req.shop.k = "string")

\* The filter { _id: id, shop } of the report selects document t.
Selects(req, t) ==
    /\ t._id = req.id.oid
    /\ (Falsy(req.shop) \/ t.shop = NormalizeShop(req.shop.s))

\* s without its i-th element.
RemoveAt(s, i) == SubSeq(s, 1, i - 1) \o SubSeq(s, i + 1, Len(s))

InitReports ==
    /\ now = 0
    /\ timers = ReportedStore
    /\ resp = NoResponse
    /\ origin = <<>>
    /\ reports = [pending |-> <<>>, applied |-> [i \in 1..3 |-> 0]]
    /\ IdleStatus
    /\ IdleMatch
    /\ IdleWidget
    /\ IdlePeer
    /\ IdleDisplay

\* A report arrives. One that does not reach the store is answered at once;
\* the others wait for findOneAndUpdate.
ReportArrives ==
    \E req \in RacingReports :
        /\ IF ReachesStore(req)
           THEN /\ Len(reports.pending) < MaxInflight
                /\ reports' = [reports EXCEPT !.pending = Append(@, req)]
                /\ UNCHANGED resp
           ELSE /\ resp' = ImpressionOutcome(timers, req, now, FALSE).resp
                /\ UNCHANGED reports
        /\ UNCHANGED <<now, timers, origin, subject, status, target, ctx, matched,
                       widgetVars, peer, shown>>

\* The store runs findOneAndUpdate for one of the waiting reports, in one
\* step, or rejects it; the route answers. The history counts the reports
\* the store has run whose filter selected a document.
ReportApplied ==
    \E i \in DOMAIN reports.pending, storeFails \in BOOLEAN :
        LET req == reports.pending[i]
            out == ImpressionOutcome(timers, req, now, storeFails)
            selected == ~storeFails /\ \E t \in timers : Selects(req, t)
        IN /\ \A t \in out.timers : t.impressions <= MaxImpressions
           /\ timers' = out.timers
           /\ resp' = out.resp
           /\ reports' = [pending |-> RemoveAt(reports.pending, i),
                          applied |-> IF selected
                                      THEN [reports.applied EXCEPT ![req.id.oid] = @ + 1]
                                      ELSE reports.applied]
           /\ UNCHANGED <<now, origin, subject, status, target, ctx, matched,
                          widgetVars, peer, shown>>

NextReports == ReportArrives \/ ReportApplied

\* Impression reports against one collection, their store operations in
\* any order.
SpecReports == InitReports /\ [][NextReports]_vars

----------------------------------------------------------------------------
\* Two CountdownTimer instances over one localStorage.

\* The instants at which the fetch of either instance may settle.
PairInstants == {0, 50, 500}

\* The evergreen timer both instances are served.
PairReply == [kind |-> "timer", data |-> BuildResponse(
                 TimerDoc(1, S1("a"), TRUE, Evergreen1, AllTargeting, NoAppearance, 1))]

\* The second instance with the store it shares with the first.
ThePeer == Machine(peer.w, peer.s, storage, peer.l)

\* Instance 1 is the first one, instance 2 the second.
Instance(which) == IF which = 1 THEN TheMachine ELSE ThePeer

\* The instance takes over what a handler made of it and of the store.
InstanceBecomes(which, m) ==
    IF which = 1
    THEN Becomes(m) /\ UNCHANGED peer
    ELSE /\ peer' = [w |-> m.w, s |-> m.s, l |-> m.l]
         /\ storage' = m.st
         /\ UNCHANGED <<widget, sched, log>>

\* Both instances are constructed on a page load; the visitor has been
\* here before or not, and localStorage works.
InitPair ==
    /\ now = 0
    /\ storage \in {NoEntry, Entry(ToStr(0))}
    /\ storeMode = "none"
    /\ widget = NewWidget
    /\ sched = NewSched
    /\ log = NewLog
    /\ peer = [w |-> NewWidget, s |-> NewSched, l |-> NewLog]
    /\ IdleStatus
    /\ IdleMatch
    /\ IdleStore
    /\ IdleAdmin
    /\ IdleDisplay

\* The fetch of an instance settles with the timer: init() resolves the end
\* instant, renders, starts the countdown and schedules the impression.
PairFetchSettles ==
    \E which \in 1..2 :
        LET m == Instance(which) IN
        /\ m.s.fetch = "inflight"
        /\ now \in PairInstants
        /\ LET fetched == [m EXCEPT !.s.fetch = PairReply.kind,
                                    !.w.timer = TimerOf(PairReply)]
               resolved == Resolve(fetched, now, storeMode)
               rendered == Render(resolved, now)
               started == StartCountdown(rendered, now, storeMode)
           IN InstanceBecomes(which, TrackImpression(started, now))
        /\ UNCHANGED <<now, storeMode, engineVars, adminVars, shown>>

\* The callback of a live interval of an instance runs.
PairIntervalFires ==
    \E which \in 1..2 :
        LET m == Instance(which) IN
        \E i \in m.s.intervals :
            /\ i.due <= now
            /\ LET counted ==
                       [m EXCEPT
                           !.l.lateTick[i.id] = @ \/ m.l.signals[i.id] > 0,
                           !.l.tickAfterDestroy = @ \/ m.l.destroyed]
                   updated == UpdateCountdown(counted, now, i.id, storeMode)
               IN InstanceBecomes(which,
                      [updated EXCEPT
                          !.s.intervals =
                              IF i \in @
                              THEN (@ \ {i}) \cup {[id |-> i.id, due |-> now + TickMs]}
                              ELSE @])
            /\ UNCHANGED <<now, storeMode, engineVars, adminVars, shown>>

\* The restart timeout of an instance runs.
PairRestartFires ==
    \E which \in 1..2 :
        LET m == Instance(which) IN
        /\ m.s.restarts # <<>>
        /\ Head(m.s.restarts) <= now
        /\ LET popped == [m EXCEPT
                             !.s.restarts = Tail(@),
                             !.l.restartGap = Num(now - Head(m.l.expiredAt)),
                             !.l.expiredAt = Tail(@)]
               resolved == Resolve(popped, now, storeMode)
           IN InstanceBecomes(which, StartCountdown(resolved, now, storeMode))
        /\ UNCHANGED <<now, storeMode, engineVars, adminVars, shown>>

\* The debounce timeout of an instance runs and posts the impression.
PairDebounceFires ==
    \E which \in 1..2 :
        LET m == Instance(which) IN
        /\ m.s.debounce # <<>>
        /\ Head(m.s.debounce) <= now
        /\ LET popped == [m EXCEPT !.s.debounce = Tail(@)] IN
           IF m.w.impressionSent THEN InstanceBecomes(which, popped)
           ELSE InstanceBecomes(which, [popped EXCEPT !.w.impressionSent = TRUE,
                                                      !.l.posts = @ + 1,
                                                      !.s.post = "inflight"])
        /\ UNCHANGED <<now, storeMode, engineVars, adminVars, shown>>

\* The impression post of an instance settles.
PairPostSettles ==
    \E which \in 1..2 :
        LET m == Instance(which) IN
        /\ m.s.post = "inflight"
        /\ InstanceBecomes(which, [m EXCEPT !.s.post = "settled"])
        /\ UNCHANGED <<now, storeMode, engineVars, adminVars, shown>>

\* Time passes up to the next instant at which a callback of either
\* instance is due or a fetch may settle.
PairClock ==
    LET dues == Dues(sched) \cup Dues(peer.s)
        next == {c \in dues \cup PairInstants : c > now /\ c <= MaxClock}
    IN /\ \A d \in dues : d > now
       /\ next # {}
       /\ now' = Min(next)
       /\ UNCHANGED <<storage, storeMode, widget, sched, log, peer, engineVars, adminVars,
                    shown>>

NextPair ==
    \/ PairFetchSettles
    \/ PairIntervalFires
    \/ PairRestartFires
    \/ PairDebounceFires
    \/ PairPostSettles
    \/ PairClock

SpecPair == InitPair /\ [][NextPair]_vars

----------------------------------------------------------------------------
\* The countdown text, as the widget and as the shared helpers compute it.

\* pad / padTime: String(num).padStart(2, '0')
Pad(num) == IF Len(ToStr(num)) < 2 THEN <<"0">> \o ToStr(num) ELSE ToStr(num)

\* parseTimeRemaining of the widget, with its expired flag.
ParsedTime(ms) ==
    IF Expired(ms)
    THEN [hours |-> Num(0), minutes |-> Num(0), seconds |-> Num(0), expired |-> TRUE]
    ELSE LET time == ParseTimeRemaining(ms) IN
         [hours |-> time.hours, minutes |-> time.minutes, seconds |-> time.seconds,
          expired |-> FALSE]

\* What updateCountdown() shows for a remaining time: the three padded
\* numbers of `HH:MM:SS`, or, on expiry, no new text.
WidgetCountdown(remaining) ==
    LET time == ParsedTime(remaining) IN
    [expired |-> time.expired,
     text |-> IF time.expired THEN <<>>
              ELSE <<Pad(time.hours.v), Pad(time.minutes.v), Pad(time.seconds.v)>>]

\* calculateTimeRemaining(endDate) at instant n: Math.max(0, end - now)
CalculateTimeRemaining(endDate, n) ==
    LET diff == Minus(GetTime(endDate), Num(n)) IN
    IF ~IsNum(diff) THEN NaN ELSE IF diff.v > 0 THEN diff ELSE Num(0)

\* parseTimeRemaining of the helpers: days, hours, minutes, seconds.
UtilsParseTimeRemaining(ms) ==
    IF NumLte(ms, Num(0))
    THEN [days |-> 0, hours |-> 0, minutes |-> 0, seconds |-> 0, expired |-> TRUE]
    ELSE LET totalSeconds == ms.v \div 1000 IN
         [days |-> totalSeconds \div 86400,
          hours |-> (totalSeconds % 86400) \div 3600,
          minutes |-> (totalSeconds % 3600) \div 60,
          seconds |-> totalSeconds % 60,
          expired |-> FALSE]

\* formatCountdown(time): the numbers of `Dd HH:MM:SS`, the days only when
\* there are any.
FormatCountdown(time) ==
    IF time.days > 0
    THEN <<ToStr(time.days), Pad(time.hours), Pad(time.minutes), Pad(time.seconds)>>
    ELSE <<Pad(time.hours), Pad(time.minutes), Pad(time.seconds)>>

\* Both computations for the end instant endMs at instant n.
Show(endMs, n) ==
    [computed |-> TRUE, endDate |-> endMs, at |-> n,
     widget |-> WidgetCountdown(Minus(Num(endMs), Num(n))),
     utils |-> LET time == UtilsParseTimeRemaining(
                               CalculateTimeRemaining(DateOf(endMs), n))
               IN [expired |-> time.expired, text |-> FormatCountdown(time)]]

\* Whole seconds left at the end instants drawn: around a minute, an hour, a
\* day and the longest evergreen duration.
DisplaySeconds ==
    {0, 1, 59, 60, 61, 3599, 3600, 3661, 86399, 86400, 90061,
     MaxDuration * 60 - 1, MaxDuration * 60}

\* The end instants drawn, in milliseconds.
DisplayEnds == {b * 1000 + o : b \in DisplaySeconds, o \in {0, 1, 500, 999}}

InitDisplay ==
    /\ now \in 0..1
    /\ shown = NotShown
    /\ IdleStatus
    /\ IdleMatch
    /\ IdleStore
    /\ IdleWidget
    /\ IdleAdmin
    /\ IdlePeer

\* The countdown towards an end instant is computed.
Display ==
    \E endMs \in DisplayEnds :
        /\ shown' = Show(endMs, now)
        /\ UNCHANGED <<now, engineVars, widgetVars, adminVars, peer>>

NextDisplay == Display

SpecDisplay == InitDisplay /\ [][NextDisplay]_vars

----------------------------------------------------------------------------
\* Properties.

\* The shop a request asks for: "a" and " A" name shop "a", "b" names "b".
RequestedShop(p) == IF p.s = S1("b") THEN S1("b") ELSE S1("a")

\* The collection ids a request gives: "12, 3" gives "12" and "3".
RequestedCollections(p) ==
    IF p.k = "string" /\ p.s # <<>> THEN {S2("1", "2"), S1("3")} ELSE {}

\* Evergreen, or Fixed with start <= n <= end.
TimeEligible(t, n) ==
    \/ t.type = "evergreen"
    \/ /\ t.type = "fixed"
       /\ t.startDate.k = "date" /\ t.endDate.k = "date"
       /\ t.startDate.v <= n /\ n <= t.endDate.v

\* A window with start or end missing or unparseable, or end <= start.
Malformed(t) ==
    \/ t.startDate.k # "date"
    \/ t.endDate.k # "date"
    \/ t.endDate.v <= t.startDate.v

\* matches(timer, productId, collectionIds) with exact id equality.
ExactMatches(t, productId, collectionIds) ==
    IF ~t.present \/ t.scope \in {"unset", "all"} THEN TRUE
    ELSE IF t.scope = "products" THEN productId.def /\ productId.s \in t.productIds
    ELSE IF t.scope = "collections" THEN t.collectionIds \cap collectionIds # {}
    ELSE FALSE

\* The read path answered with a timer.
TimerReturned == resp.op = "getTimer" /\ resp.status = 200

\* The stored timer the read path answered with.
Returned == {t \in timers : TimerReturned /\ t._id = resp.data.id}

\* The timers eligible for the last request to the read path: owned by the
\* requested shop, active, time-eligible and targeting-matched.
Eligible ==
    {t \in timers :
        /\ resp.req.shop.k = "string"
        /\ t.shop = RequestedShop(resp.req.shop)
        /\ t.isActive
        /\ TimeEligible(t, resp.now)
        /\ ExactMatches(t.targeting, resp.req.productId,
                        RequestedCollections(resp.req.collectionIds))}

\* C1: whenever the public read path returns a timer, that timer belongs to
\* the requested (normalized) shop, is active, and is Evergreen or Fixed with
\* start <= now <= end.
C1_ReturnedTimerOwnedActiveEligible ==
    TimerReturned =>
        /\ Returned # {}
        /\ \A t \in Returned :
              /\ t.shop = RequestedShop(resp.req.shop)
              /\ t.isActive
              /\ TimeEligible(t, resp.now)

\* A fixed timer is returned at the very instant of its end to a request
\* that names the shop as " A".
C1_Witness ==
    /\ TimerReturned
    /\ resp.req.shop = StrParam(S2(" ", "A"))
    /\ \E t \in Returned : t.type = "fixed" /\ t.endDate = DateOf(resp.now)

\* C2: selection returns the newest of the shop-owned, active, time-eligible
\* and targeting-matched timers, and none when there is no such timer.
C2_NewestEligibleReturned ==
    (resp.op = "getTimer" /\ resp.status \in {200, 404}) =>
        IF Eligible = {} THEN resp.status = 404
        ELSE /\ resp.status = 200
             /\ \E t \in Eligible :
                   /\ t._id = resp.data.id
                   /\ \A u \in Eligible : u.createdAt <= t.createdAt

\* C3: for scope Products the matcher answers true iff a productId is given
\* and equals a targeted id; for scope Collections iff the given collection
\* ids share an element with the targeted ones. A substring does not match.
C3_ExactIdEquality ==
    (matched.asked /\ target.present /\ target.scope \in {"products", "collections"}) =>
        /\ matched.storefront
              <=> ExactMatches(target, ctx.productId, ctx.collectionIds)
        /\ matched.utils
              <=> ExactMatches(target, ctx.productId, ctx.collectionIds)

\* C4: a timer whose scope is All, or whose targeting is missing, matches
\* every context, an absent productId and an empty collection list included.
C4_AllScopeMatchesEverything ==
    (matched.asked /\ (~target.present \/ target.scope = "all")) =>
        /\ matched.storefront
        /\ matched.utils
        /\ matched.findActive
        /\ matched.applies

\* A timer without targeting is matched against an empty context.
C4_Witness ==
    /\ matched.asked
    /\ ~target.present
    /\ ~ctx.productId.def
    /\ ctx.collectionIds = {}
    /\ matched.storefront

\* C5: a timer with active = false has status Inactive, whatever its kind,
\* its window and the instant.
C5_InactiveWins ==
    (status.read /\ subject.present /\ ~subject.isActive) =>
        /\ status.virtual = "inactive"
        /\ status.utils = "inactive"
        /\ status.listing = "inactive"

\* A disabled fixed timer whose window is over reads Inactive.
C5_Witness ==
    /\ subject.present /\ ~subject.isActive /\ subject.type = "fixed"
    /\ subject.endDate.k = "date" /\ subject.endDate.v < now
    /\ status.utils = "inactive"

\* An active Fixed timer with start and end and end > start.
ValidFixed(t) ==
    /\ t.present /\ t.isActive /\ t.type = "fixed"
    /\ ~Malformed(t)

\* Scheduled iff now < start, Expired iff now > end, Active in between.
ExpectedStatus(t, n) ==
    IF n < t.startDate.v THEN "scheduled"
    ELSE IF n > t.endDate.v THEN "expired"
    ELSE "active"

\* The order Scheduled, Active, Expired.
Rank(st) == IF st = "scheduled" THEN 0 ELSE IF st = "active" THEN 1 ELSE 2

\* C6: for an active Fixed timer with a valid window the status is Scheduled
\* iff now < start, Expired iff now > end and Active iff start <= now <= end,
\* and while the configuration stays the same it never moves backwards in
\* the order Scheduled, Active, Expired as now advances.
C6_StatusMovesForward ==
    /\ []((status.read /\ ValidFixed(subject)) =>
            /\ status.virtual = ExpectedStatus(subject, now)
            /\ status.utils = ExpectedStatus(subject, now)
            /\ status.listing = ExpectedStatus(subject, now))
    /\ [][(status.read /\ ValidFixed(subject) /\ subject' = subject /\ now' > now) =>
            /\ Rank(status'.virtual) >= Rank(status.virtual)
            /\ Rank(status'.utils) >= Rank(status.utils)
            /\ Rank(status'.listing) >= Rank(status.listing)]_vars

\* A valid timer read at the instant of its end, later than its start, is
\* still Active.
C6_Witness ==
    /\ ValidFixed(subject)
    /\ now = subject.endDate.v
    /\ status.virtual = "active" /\ status.utils = "active"

\* C7: an active Fixed timer whose start or end is missing or unparseable,
\* or whose end <= start, has status Invalid at every instant.
C7_MalformedIsInvalid ==
    (status.read /\ subject.present /\ subject.isActive /\ subject.type = "fixed"
        /\ Malformed(subject)) =>
        /\ status.virtual = "invalid"
        /\ status.utils = "invalid"
        /\ status.listing = "invalid"

C9_SelectionIsPure ==
    [][/\ resp'.op = "getTimer" => timers' = timers
       /\ timers' # timers =>
            /\ resp'.op = "impression" /\ resp'.status = 200
            /\ \E t \in timers :
                  timers' = (timers \ {t})
                            \cup {[t EXCEPT !.impressions = t.impressions + 1]}]_vars

\* The read path returns a timer that already counts an impression.
C9_Witness ==
    /\ TimerReturned
    /\ \E t \in Returned : t.impressions > 0

\* C10: when no timer is eligible the read path answers 404 (cacheable) and
\* not 500; 500 is produced only when the store lookup fails; a missing shop
\* yields 400 without querying the store.
C10_DistinctOutcomes ==
    resp.op = "getTimer" =>
        /\ Falsy(resp.req.shop) <=> resp.status = 400
        /\ resp.status = 400 => ~resp.queried
        /\ resp.status = 500 => resp.queried
        /\ (~Falsy(resp.req.shop) /\ Eligible = {} /\ resp.status # 500) =>
              (resp.status = 404 /\ resp.maxAge = 60)

\* The stored timers that agree with t on the id, the kind, the appearance
\* and the window fields, and differ in the shop, the name, the targeting,
\* the impressions or the active flag.
PrivateVariants(t) ==
    {[t EXCEPT !.shop = s, !.name = n, !.targeting = g, !.impressions = i,
               !.isActive = a] :
        s \in StoredShops, n \in {"timer", "other"},
        g \in {NoTargeting, AllTargeting, ProductsTargeting({Loose120})},
        i \in 0..MaxImpressions, a \in BOOLEAN}

\* The appearance a response shows for a stored one: each field as stored,
\* or its default when the stored field is empty.
ShownAppearance(a) ==
    [present |-> TRUE,
     backgroundColor |-> IF a.backgroundColor = "" THEN "#000000" ELSE a.backgroundColor,
     textColor |-> IF a.textColor = "" THEN "#FFFFFF" ELSE a.textColor,
     position |-> IF a.position = "" THEN "above-cart" ELSE a.position,
     headline |-> a.headline,
     supportingText |-> a.supportingText]

\* C11: the response for a selected timer holds exactly its id, kind,
\* appearance and the window fields of its kind (start and end only for
\* Fixed, durationMinutes only for Evergreen), and nothing else: no shop,
\* name, targeting, impressions or active flag, so every stored timer that
\* differs from the selected one only in those fields gives the same response.
C11_ResponseIsMinimal ==
    \A t \in Returned :
        /\ DOMAIN resp.data =
              {"id", "type", "appearance", "startDate", "endDate", "durationMinutes"}
        /\ resp.data.id = t._id
        /\ resp.data.type = t.type
        /\ resp.data.appearance = ShownAppearance(t.appearance)
        /\ t.type = "fixed" =>
              /\ resp.data.startDate = t.startDate
              /\ resp.data.endDate = t.endDate
              /\ resp.data.durationMinutes = Undefined
        /\ t.type = "evergreen" =>
              /\ resp.data.durationMinutes = t.durationMinutes
              /\ resp.data.startDate = Undefined
              /\ resp.data.endDate = Undefined
        /\ \A u \in PrivateVariants(t) : BuildResponse(u) = resp.data

\* An evergreen timer with a product list and a counted impression is
\* returned: the response shows its duration and the default appearance.
C11_Witness ==
    /\ TimerReturned
    /\ \E t \in Returned :
          /\ t.type = "evergreen"
          /\ t.targeting.productIds # {}
          /\ t.impressions > 0
          /\ resp.data.durationMinutes = Num(1)
          /\ resp.data.appearance.backgroundColor = "#000000"

\* The last resolution of the end instant was one of an evergreen timer.
EvergreenResolved == log.resolve.count > 0 /\ widget.timer.type = "evergreen"

\* The duration of the widget's evergreen timer, in milliseconds.
DurationMs == widget.timer.durationMinutes.v * 60 * 1000

\* The start the store held before the last resolution, when it held one.
StartBefore == ParseInt(log.resolve.before.s)

HeldStart == log.resolve.before.present /\ IsNum(StartBefore)

\* C12: with no entry in the visitor's store, resolving the end instant at N
\* writes start = N and returns N + duration; a resolution at t that finds
\* the start N with t - N < duration returns the same N + duration and leaves
\* the entry as it is. Between resolutions the entry changes only when an
\* expiry is handled, so this holds across reloads.
C12_EvergreenContinuity ==
    /\ [](EvergreenResolved /\ ~log.resolve.threw =>
            /\ ~log.resolve.before.present =>
                  /\ log.resolve.after = Entry(ToStr(log.resolve.at))
                  /\ ParseInt(log.resolve.after.s) = Num(log.resolve.at)
                  /\ log.resolve.endTime = Num(log.resolve.at + DurationMs)
            /\ (HeldStart /\ log.resolve.at - StartBefore.v < DurationMs) =>
                  /\ log.resolve.endTime = Num(StartBefore.v + DurationMs)
                  /\ log.resolve.after = log.resolve.before)
    /\ [][storage' # storage =>
            \/ log'.resolve.count = log.resolve.count + 1
            \/ log'.signals # log.signals]_vars

\* The store was empty, a first resolution wrote the start 500, and after a
\* reload the resolution at 59999 still counts down to 500 + duration.
C12_Witness ==
    /\ EvergreenResolved
    /\ log.resolve.before = Entry(ToStr(500))
    /\ log.resolve.at = 59999
    /\ log.resolve.endTime = Num(60500)
    /\ storage = Entry(ToStr(500))

\* C13: when the store holds a start with now - start >= duration, the
\* boundary included, resolving the end instant replaces the stored start by
\* now and returns now + duration; with now - start < duration there is no
\* rearm.
C13_EvergreenRearm ==
    (EvergreenResolved /\ ~log.resolve.threw /\ HeldStart) =>
        IF log.resolve.at - StartBefore.v >= DurationMs
        THEN /\ log.resolve.after = Entry(ToStr(log.resolve.at))
             /\ log.resolve.endTime = Num(log.resolve.at + DurationMs)
        ELSE /\ log.resolve.after = log.resolve.before
             /\ log.resolve.endTime = Num(StartBefore.v + DurationMs)

\* The stored start 0 is exactly one duration old when the end instant is
\* resolved, and is replaced.
C13_Witness ==
    /\ EvergreenResolved
    /\ log.resolve.before = Entry(ToStr(0))
    /\ log.resolve.at = DurationMs
    /\ log.resolve.after = Entry(ToStr(DurationMs))
    /\ log.resolve.endTime = Num(2 * DurationMs)

\* The interval the widget's handle names is live.
Ticking ==
    /\ widget.intervalId # 0
    /\ \E i \in sched.intervals : i.id = widget.intervalId

\* C14: when a call of the visitor store throws during the resolution of the
\* evergreen end instant, the resolution still yields now + duration with
\* nothing persisted under start = now, and the handler that resolved goes on:
\* the widget is rendered (on the first resolution) and ticking afterwards.
\* This holds for the first resolution and for every rearm after an expiry.
C14_StorageFailureDegrades ==
    /\ [](EvergreenResolved /\ log.resolve.threw =>
            /\ log.resolve.endTime = Num(log.resolve.at + DurationMs)
            /\ log.resolve.after \in {log.resolve.before, NoEntry})
    /\ [][(log'.resolve.count = log.resolve.count + 1
             /\ widget'.timer.type = "evergreen" /\ log'.resolve.threw) =>
            /\ widget'.endTime = Num(log'.resolve.at + DurationMs')
            /\ Ticking'
            /\ log.resolve.count = 0 => widget'.html
            /\ log'.runs = log.runs + 1]_vars

\* After an expiry the store throws again on the rearm: the second
\* resolution starts afresh and the widget is ticking.
C14_Witness ==
    /\ EvergreenResolved
    /\ log.resolve.threw
    /\ log.resolve.count = 2
    /\ log.resolve.at > DurationMs
    /\ widget.endTime = Num(log.resolve.at + DurationMs)
    /\ Ticking
    /\ storage # Entry(ToStr(log.resolve.at))

\* The interval started by run k is live.
RunTicking(k) == \E i \in sched.intervals : i.id = k

\* C15: in every countdown run, once remaining has reached 0 the tick source
\* of the run is stopped, expiry handling has been invoked exactly once, and
\* no further tick of the run follows; this includes a run whose end instant
\* is already reached at its first update.
C15_ExpiryOncePerRun ==
    \A k \in 1..log.runs :
        /\ log.signals[k] <= 1
        /\ ~log.lateTick[k]
        /\ log.signals[k] = 1 => ~RunTicking(k)

\* The widget shows a Fixed timer and has detected its expiry.
FixedExpired ==
    /\ widget.timer.type = "fixed"
    /\ \E k \in 1..log.runs : log.signals[k] >= 1

\* C16: once the widget of a Fixed timer has detected expiry it is hidden and
\* its tick source is stopped, and from then on it is never shown again,
\* never ticks again and never restarts.
C16_FixedDoesNotSelfHeal ==
    /\ [](FixedExpired =>
            /\ widget.display = "none"
            /\ widget.intervalId = 0
            /\ sched.intervals = {}
            /\ sched.restarts = <<>>
            /\ \A k \in 1..log.runs : ~log.lateTick[k])
    /\ [][(FixedExpired /\ log' # NewLog) =>
            /\ widget'.display = "none"
            /\ log'.runs = log.runs
            /\ sched'.intervals = {}]_vars

\* The widget shows an Evergreen timer.
IsEvergreen == widget.timer.type = "evergreen"

\* An evergreen expiry has been signalled and its restart is still to come.
AwaitingRestart == IsEvergreen /\ sched.restarts # <<>>

\* C17: every time the countdown of an Evergreen widget reaches 0 the run
\* stops; the restart comes no earlier than the fixed delay after the expiry,
\* resolves a fresh window (start = the instant of the rearm) and resumes
\* ticking against the new end instant; and an undestroyed Evergreen widget
\* is eventually ticking again after each expiry.
C17_EvergreenRecovers ==
    /\ [](IsEvergreen =>
            /\ \A k \in 1..log.runs : log.signals[k] >= 1 => ~RunTicking(k)
            /\ IsNum(log.restartGap) => log.restartGap.v >= RestartDelayMs)
    /\ [][(IsEvergreen /\ log.resolve.count >= 1
             /\ log'.resolve.count = log.resolve.count + 1) =>
            /\ log'.resolve.at = now'
            /\ log'.resolve.endTime = Num(now' + DurationMs)
            /\ widget'.endTime = log'.resolve.endTime
            /\ Ticking']_vars
    /\ [](AwaitingRestart =>
            <>(\/ Ticking
               \/ log.destroyed
               \/ log = NewLog
               \/ now + RestartDelayMs > MaxClock))

\* C18: a widget instance reports at most one impression in its whole life,
\* whatever the number of ticks, expiries and rearms; a widget that fetched no
\* timer reports none and schedules none; once a timer is rendered the report
\* is either still scheduled or made, it is made no earlier than the debounce
\* delay after the render, and under a fair event loop it is made.
C18_OneImpressionPerWidget ==
    /\ [](/\ log.posts <= 1
          /\ ~widget.timer.present => (log.posts = 0 /\ sched.debounce = <<>>)
          /\ log.renders >= 1 => ((log.posts = 1) # (sched.debounce # <<>>))
          /\ log.posts = 1 =>
                (log.renders = 1 /\ now >= log.renderedAt.v + DebounceMs))
    /\ [](log.renders >= 1 => <>(log.posts = 1 \/ log.renders = 0))

\* An evergreen widget that has expired and rearmed has reported once.
C18_Witness ==
    /\ IsEvergreen
    /\ log.runs >= 2
    /\ \E k \in 1..log.runs : log.signals[k] >= 1
    /\ log.posts = 1
    /\ widget.impressionSent

\* The widget is stopped: no interval in its handle and nothing rendered.
Stopped == widget.intervalId = 0 /\ ~widget.html

\* C19: destroy halts the tick source and is idempotent (on a stopped widget
\* it changes nothing), and once it has been called, at whatever point of the
\* widget's life, no tick, no re-render and no restart of the countdown
\* occurs any more.
C19_DestroyIsFinal ==
    /\ [](log.destroyed =>
            /\ ~log.tickAfterDestroy
            /\ ~log.renderAfterDestroy
            /\ ~log.startAfterDestroy)
    /\ [][Destroy => (Stopped' /\ ~Ticking')]_vars
    /\ [][(log.destroyed /\ Stopped /\ Destroy) => UNCHANGED vars]_vars

\* The fetch of the timer ended without a timer.
FetchFailed == sched.fetch \in FetchFailures

\* C20: every instance issues one timer fetch and at most one impression
\* post, never a second of either; when the fetch fails, answers with a
\* non-OK status or carries an unsuccessful body, the widget ends with no
\* timer, nothing rendered, no tick source and no impression, now and later;
\* and the settling of the impression post, failed or not, changes nothing in
\* the widget.
C20_NetworkFailsOpen ==
    /\ [](/\ log.fetches = 1
          /\ log.posts <= 1
          /\ FetchFailed =>
                /\ widget = NewWidget
                /\ sched.intervals = {}
                /\ sched.restarts = <<>>
                /\ sched.debounce = <<>>
                /\ sched.post = "none"
                /\ log.posts = 0
                /\ log.renders = 0
                /\ log.runs = 0)
    /\ [][sched.fetch # "inflight" =>
            (sched'.fetch = sched.fetch \/ (sched'.fetch = "inflight" /\ log' = NewLog))]_vars
    /\ [][(sched.post = "inflight" /\ sched'.post = "settled") =>
            /\ widget' = widget
            /\ storage' = storage
            /\ log' = log
            /\ sched' = [sched EXCEPT !.post = "settled"]]_vars

\* The fetch was answered with a server error: long after, the widget is
\* as it was constructed.
C20_Witness ==
    /\ sched.fetch = "serverError"
    /\ now = MsPerMinute
    /\ widget = NewWidget
    /\ log.posts = 0

----------------------------------------------------------------------------
\* Properties of the admin router.

\* C21: whatever admin operations the server has accepted, every stored
\* timer is of the kind it was created with.
C21_KindNeverChanges ==
    \A t \in timers : origin[t._id].made /\ t.type = origin[t._id].kind

\* C22: no step lowers the impressions counter of a stored timer, and the
\* only step that raises it is an impression report.
C22_ImpressionsMonotonic ==
    [][\A t \in timers, u \in timers' :
          t._id = u._id =>
              /\ u.impressions >= t.impressions
              /\ u.impressions > t.impressions => resp'.op = "impression"]_vars

\* The routes of the admin router.
AdminOps == {"create", "update", "delete", "toggle", "get", "list"}

\* The timers of the collection that the session's shop does not own.
Foreign(store) == {t \in store : t.shop # SessionShop}

\* C23: an admin operation of the session's shop returns no timer of
\* another shop, answers 404 to an id another shop owns, leaves the timers of
\* the other shops as they are, and no stored timer is ever owned by a shop
\* other than the one that created it.
C23_AdminScopedByShop ==
    /\ [](resp.op \in AdminOps => \A r \in resp.returned : r.shop = resp.shop)
    /\ [](\A t \in timers : origin[t._id].made /\ t.shop = origin[t._id].shop)
    /\ [][resp'.op \in AdminOps =>
            /\ Foreign(timers') = Foreign(timers)
            /\ (resp'.id \in {t._id : t \in Foreign(timers)} /\ resp'.status # 500) =>
                   resp'.status \in {400, 404}]_vars

\* C24: every impression counter equals the number of reports the store
\* has run for that timer with a filter that selects it, however the
\* reports in flight are ordered; a report that selects no timer (an id that
\* is not stored, a shop that does not own the timer) or that never reaches
\* the store changes no counter, and a report changes no counter but that
\* of the timer it names.
C24_ImpressionsAtomic ==
    /\ [](\A t \in timers : t.impressions = reports.applied[t._id])
    /\ [][\A t \in timers :
            (\E u \in timers' : u._id = t._id /\ u.impressions # t.impressions) =>
                /\ resp'.op = "impression"
                /\ Selects(resp'.req, t)
                /\ [t EXCEPT !.impressions = @ + 1] \in timers']_vars

\* Two reports for timer 1 were in flight together and both are counted,
\* while a report with another shop's name has been answered 404.
C24_Witness ==
    /\ \E t \in timers : t._id = 1 /\ t.impressions = 2
    /\ \E t \in timers : t._id = 2 /\ t.impressions = 0
    /\ reports.applied[1] = 2
    /\ resp.op = "impression"
    /\ resp.status = 404
    /\ resp.req.shop = StrParam(S1("b"))
    /\ Len(reports.pending) = 1

\* A stored timer has what its kind asks for: a fixed one a start and an
\* end after it, an evergreen one a duration within the range.
WellFormed(t) ==
    /\ t.type = "fixed" =>
          /\ t.startDate.k = "date"
          /\ t.endDate.k = "date"
          /\ t.endDate.v > t.startDate.v
    /\ t.type = "evergreen" =>
          /\ t.durationMinutes.k = "number"
          /\ t.durationMinutes.v >= MinDuration
          /\ t.durationMinutes.v <= MaxDuration

\* C25: every stored timer is well formed; a create or an update whose
\* document would not be is answered 400 and leaves the collection as it
\* is, and so does every create or update that is answered 400.
C25_StoredTimersWellFormed ==
    /\ [](\A t \in timers : WellFormed(t))
    /\ [](\A data \in AdminBodies :
            LET out == CreateOutcome(timers, SessionShop, data, 1, now, FALSE)
                timer == [Assign(NewTimer(1, SessionShop, now), data)
                             EXCEPT !.shop = SessionShop]
            IN ~WellFormed(timer) => out.resp.status = 400 /\ out.timers = timers)
    /\ [](\A data \in AdminBodies, t \in timers :
            LET out == UpdateOutcome(timers, t.shop, [valid |-> TRUE, oid |-> t._id],
                                     data, FALSE)
            IN ~WellFormed(Assign(t, data)) =>
                   out.resp.status = 400 /\ out.timers = timers)
    /\ [][(resp'.op \in {"create", "update"} /\ resp'.status = 400) =>
             timers' = timers]_vars

\* An update of the session's fixed timer has been answered 400 and the
\* timer still runs from 1 to 2, beside the other shop's evergreen timer.
C25_Witness ==
    /\ resp.op = "update"
    /\ resp.status = 400
    /\ \E t \in timers : /\ t._id = resp.id
                          /\ t.shop = resp.shop
                          /\ t.type = "fixed"
                          /\ t.startDate = DateOf(1)
                          /\ t.endDate = DateOf(2)
    /\ \E t \in timers : t.type = "evergreen" /\ t.durationMinutes = Num(MinDuration)

----------------------------------------------------------------------------
\* Properties of two instances over one store.

\* Both instances show the evergreen timer and are counting down: each has
\* a live interval under its handle and no restart to come.
PairCounting ==
    /\ widget.timer.present /\ widget.timer.type = "evergreen"
    /\ peer.w.timer.present /\ peer.w.timer.type = "evergreen"
    /\ widget.intervalId # 0 /\ sched.restarts = <<>>
    /\ peer.w.intervalId # 0 /\ peer.s.restarts = <<>>

\* C26: once each of two instances that share the store has expired and
\* rearmed twice (the rearm on which they raced, and the next one), and
\* whenever they have gone through equally many cycles after that, both
\* count down to the same end instant, the stored start plus the duration.
C26_PairSelfCorrects ==
    (PairCounting /\ log.runs = peer.l.runs /\ log.runs >= 3) =>
        /\ widget.endTime = peer.w.endTime
        /\ storage.present
        /\ widget.endTime =
               Plus(ParseInt(storage.s),
                    Times(widget.timer.durationMinutes, Num(MsPerMinute)))

----------------------------------------------------------------------------
\* Properties of the order of events in one instance.

\* The instance has rendered, started a countdown, scheduled or reported an
\* impression.
Acted ==
    \/ log.renders > 0
    \/ widget.html
    \/ log.runs > 0
    \/ sched.intervals # {}
    \/ sched.restarts # <<>>
    \/ sched.debounce # <<>>
    \/ widget.impressionSent
    \/ log.posts > 0
    \/ sched.post # "none"

\* C27: an instance renders, ticks, schedules and reports its impression
\* only after its fetch has settled with a timer; a countdown is started and
\* an impression scheduled only after the render, the first update of the
\* countdown finding the rendered text to write to; the impression is due
\* the debounce delay after the render and is reported no earlier.
C27_EventOrder ==
    /\ [](Acted => (sched.fetch = "timer" /\ widget.timer.present))
    /\ []((log.runs > 0 \/ sched.debounce # <<>> \/ log.posts > 0) =>
             (log.renders > 0 /\ IsNum(log.renderedAt)))
    /\ [](\A d \in Range(sched.debounce) : d = log.renderedAt.v + DebounceMs)
    /\ [](log.posts > 0 => now >= log.renderedAt.v + DebounceMs)
    /\ [][(sched.fetch = "inflight" /\ sched'.fetch = "timer") =>
            /\ log'.renders = 1
            /\ log'.runs = 1
            /\ log'.renderedAt = Num(now')
            /\ sched'.debounce = <<now' + DebounceMs>>
            /\ (~Expired(Minus(widget'.endTime, Num(now'))) =>
                   widget'.text = ParseTimeRemaining(Minus(widget'.endTime, Num(now'))))]_vars

\* The impression has been reported, the debounce delay after the render at
\* 500, by an instance that is still counting down.
C27_Witness ==
    /\ sched.fetch = "timer"
    /\ log.renderedAt = Num(500)
    /\ log.posts = 1
    /\ now = 500 + DebounceMs
    /\ widget.intervalId # 0
    /\ widget.text # ZeroText

----------------------------------------------------------------------------
\* Properties of the countdown text.

\* The numbers a countdown text shows, the days being 0 when it shows none.
Components(text) ==
    LET n == Len(text) IN
    [days |-> IF n = 4 THEN ParseInt(text[1]).v ELSE 0,
     hours |-> ParseInt(text[n - 2]).v,
     minutes |-> ParseInt(text[n - 1]).v,
     seconds |-> ParseInt(text[n]).v]

\* The text is the decomposition of the whole seconds of `remaining`.
Decomposes(text, remaining) ==
    LET c == Components(text) IN
    /\ c.hours < 24
    /\ c.minutes < 60
    /\ c.seconds < 60
    /\ c.days * 86400 + c.hours * 3600 + c.minutes * 60 + c.seconds = remaining \div 1000

\* C28: for a remaining time up to the longest evergreen duration, the
\* countdown shown, by the widget and by the helpers, is the decomposition
\* of its whole seconds into days, hours below 24, minutes and seconds below
\* 60; once nothing remains, the countdown is expired and shows no time
\* but zeros.
C28_DisplayDecomposition ==
    shown.computed =>
        LET remaining == IF shown.endDate > shown.at THEN shown.endDate - shown.at ELSE 0 IN
        remaining <= MaxDuration * MsPerMinute =>
            \A view \in {shown.widget, shown.utils} :
                IF remaining = 0
                THEN view.expired /\ (view.text = <<>> \/ Decomposes(view.text, 0))
                ELSE ~view.expired /\ Decomposes(view.text, remaining)

----------------------------------------------------------------------------
\* Properties of the tick source of one instance.

\* C29: in every reachable state of a widget instance at most one interval
\* is live, and a live interval is the one the widget's handle intervalId
\* names: no running interval is left that the widget no longer refers to.
C29_OneLiveTickSource ==
    /\ Cardinality(sched.intervals) <= 1
    /\ \A i \in sched.intervals : i.id = widget.intervalId

----------------------------------------------------------------------------
\* Properties of the resolved evergreen end instant.

\* C30: whatever the visitor's store holds under the key of an Evergreen
\* timer (nothing, a past start, a start later than now, no number), the
\* end instant resolved at instant `at` is a number, later than `at` and at
\* most `at` plus the duration.
C30_EvergreenEndWellFormed ==
    EvergreenResolved =>
        /\ IsNum(log.resolve.endTime)
        /\ log.resolve.endTime.v > log.resolve.at
        /\ log.resolve.endTime.v <= log.resolve.at + DurationMs

====
